---- MODULE Spec2Model ----
(***************************************************************************)
(* The Pylon agent gateway (src/gateway-api): the POST /do and POST        *)
(* /do/chain pipelines, the x402 payment gate with its replay set, the     *)
(* reliability wrapper around backend calls and the usage ledger.          *)
(*                                                                         *)
(* Node runs every handler to completion between two awaits.  The variable *)
(* `running` names the request whose synchronous section is executing:     *)
(* while it is set, no other request, reply or clock tick can happen.  The *)
(* synchronous section of a handler is split at the places where the code  *)
(* first reads a group of request fields, so that those fields are drawn   *)
(* there; the split adds no interleaving.                                  *)
(***************************************************************************)
EXTENDS Integers, Sequences, FiniteSets, TLC

VARIABLES
  now,              \* Date.now(), in ticks of TickMs milliseconds
  received,         \* number of requests received so far
  running,          \* request whose synchronous section is executing, or 0
  TEST_BYPASS_KEY,  \* process.env.TEST_BYPASS_KEY || ""
  req,              \* the in-flight requests: req, res and the handler's locals
  paymentNonces,    \* Map hash -> timestamp (Absent: no entry)
  activeDiscovered, \* Map capId -> the activated discovered capability
  usageLog,         \* the usage_log table, in insertion order
  stats,            \* reliability.js stats: per-capability counters
  breakers,         \* reliability.js breakers: per-capability circuit breaker
  firstPresented,   \* per proof: when it was first presented to the replay
                    \* check (a record of the run; Absent: never)
  gatewayRateLimits, \* Map ip -> bucket of the rate limiter
  arrivals,         \* what the rate limiter was asked and answered (a record
                    \* of the run)
  service,          \* a service as the bazaar lists it
  normalized,       \* what normalizeResults made of it
  outbound,         \* what callDiscoveredBackend did with its endpoint
  discoveryCache,   \* Map cacheKey -> { results, timestamp }
  bazaarLog,        \* per search string: when the bazaar last answered it
                    \* with 2xx, and with what (a record of the run)
  build,            \* a chain step with the results before it, and the
                    \* parameters executePlan builds for it
  behind            \* per capability: the attempt loops still running
                    \* behind calls the breaker's timeout rejected

\* the rate limiter, and the discovery of one service
limiterVars == <<gatewayRateLimits, arrivals>>
bazaarVars == <<service, normalized, outbound>>
cacheVars == <<discoveryCache, bazaarLog>>
stepVars == <<build, behind>>

vars == <<now, received, running, TEST_BYPASS_KEY, req, paymentNonces,
          activeDiscovered, usageLog, stats, breakers, firstPresented,
          limiterVars, bazaarVars, cacheVars, stepVars>>

(* ------------------------------ bounds -------------------------------- *)

MaxTicks == 3
TickMs == 150000
MaxRequests == 1
\* the rows of the usage ledger a usage query may find
MaxLedger == 2
\* the calls of one capability that are followed through its breaker
MaxCalls == 11
\* the calls followed when two are in flight together
MaxProbes == 7
\* the prices a listing may name, in steps of $0.0002
MaxPrices == 1300
\* the requests followed from the discovery of a service on
MaxLookups == 2
\* the requests followed while a service is discovered and activated
MaxActivations == 3
\* the steps before the chain step whose parameters are built
MaxEarlier == 2
\* the requests followed through the searches of the bazaar
MaxSearches == 3
\* the limited requests one address sends between two ticks, and those the
\* other address sends meanwhile
MaxBurst == 62
MaxOthers == 2

\* the requests in flight at the same time
Slots == {1, 2}

(* ------------------------- program constants -------------------------- *)

NONCE_TTL == 300000

\* orchestrator.js: the longest plan, the largest plan cost (micro-dollars),
\* the time a whole chain may take (ms)
MAX_STEPS == 5
MAX_BUDGET == 500000
TOTAL_TIMEOUT_MS == 120000

\* orchestrator.js: the delay of the timer executePlan sets for each step; it
\* aborts a controller whose signal no call is given
STEP_TIMEOUT_MS == 30000

\* reliability.js: opossum's timeout for one wrapped call, retries included
BREAKER_TIMEOUT_MS == 60000

\* reliability.js: the other options of the circuit breakers
ERROR_THRESHOLD_PERCENTAGE == 50
VOLUME_THRESHOLD == 5
ROLLING_COUNT_TIMEOUT == 300000
RESET_TIMEOUT == 30000

\* process.env.BACKEND_BYPASS_KEY || "": the deployment sets it, so that the
\* gateway's own backends do not ask it for payment
BACKEND_BYPASS_KEY == "bk"

\* RETRY_DELAYS = [500, 1500, 4500]
RETRY_DELAYS == <<500, 1500, 4500>>

None == "none"
Absent == 0 - 1

(* --------------------------- the registry ----------------------------- *)

\* capabilities.json is configuration: two native capabilities with the
\* prices the README lists, cost in micro-dollars
\* (name is held lower-cased, keys is Object.keys(inputSchema).)
capabilities ==
  << [id |-> "screenshot", name |-> "screenshot", cost |-> 10000,
      keywords |-> {"screenshot", "capture"},
      keys |-> {"url", "format"}, required |-> {"url"}, defaults |-> {"format"}],
     [id |-> "ip-geo", name |-> "ip geolocation", cost |-> 5000,
      keywords |-> {"ip", "locate"},
      keys |-> {}, required |-> {}, defaults |-> {}] >>

CapIds == {capabilities[i].id : i \in 1..Len(capabilities)}

\* capabilities.find(c => c.id === id): the index of the first entry with
\* that id, 0 when there is none
findCapability(id) ==
  IF \E i \in 1..Len(capabilities) : capabilities[i].id = id
  THEN CHOOSE i \in 1..Len(capabilities) :
         /\ capabilities[i].id = id
         /\ \A j \in 1..(i-1) : capabilities[j].id # id
  ELSE 0

\* The one service the bazaar lists, as normalizeResults and
\* activateDiscovered shape it: provider price $0.005, doubled; the keywords
\* are the words of its description longer than three letters.
DiscoveredCap ==
  [id |-> "discovered:weather", name |-> "weather", cost |-> 10000,
   keywords |-> {"weather", "forecast"},
   keys |-> {}, required |-> {}, defaults |-> {}]

\* Endpoint URLs: valid tells whether new URL() parses the string, v6
\* whether its host is an IPv6 literal (written in brackets in the URL)
Url(host, v6) == [given |-> TRUE, valid |-> TRUE, v6 |-> v6, host |-> host]

PublicUrl == Url("api.example.com", FALSE)

\* a listing without url or endpoint
NoUrl == [given |-> FALSE, valid |-> FALSE, v6 |-> FALSE, host |-> ""]

BLOCKED_HOSTS ==
  {"localhost", "0.0.0.0", "[::]", "[::1]", "metadata.google.internal"}

\* new URL(urlStr).hostname.toLowerCase(): an IPv6 literal keeps its brackets
hostname(u) == IF u.v6 THEN "[" \o u.host \o "]" ELSE u.host

\* a regular expression anchored at the start: /^prefix/
startsWith(h, prefix) ==
  Len(h) >= Len(prefix) /\ SubSeq(h, 1, Len(prefix)) = prefix

\* BLOCKED_PATTERNS.some(p => p.test(h))
blockedPattern(h) ==
  \/ startsWith(h, "127.")
  \/ startsWith(h, "10.")
  \/ \E n \in 16..31 : startsWith(h, "172." \o ToString(n) \o ".")
  \/ startsWith(h, "192.168.")
  \/ startsWith(h, "169.254.")
  \/ startsWith(h, "0.")
  \/ \E n \in 64..129 : startsWith(h, "100." \o ToString(n) \o ".")
  \/ startsWith(h, "fc00:")
  \/ startsWith(h, "fe80:")

\* isBlockedEndpoint(urlStr): a URL that does not parse is blocked
isBlockedEndpoint(u) ==
  IF ~u.valid THEN TRUE
  ELSE hostname(u) \in BLOCKED_HOSTS \/ blockedPattern(hostname(u))

\* What the bazaar answers a search with: nothing, the service, the service
\* under the same name at another provider, or a service whose URL names
\* the link-local metadata address.
listing(found) ==
  CASE found = "moved" ->
         [name |-> "WEATHER!", url |-> Url("wx.example.net", FALSE),
          provider |-> "wx.example.net"]
    [] found = "internal" ->
         [name |-> "Weather", url |-> Url("169.254.169.254", FALSE),
          provider |-> "169.254.169.254"]
    [] OTHER ->
         [name |-> "Weather", url |-> PublicUrl, provider |-> "api.example.com"]

\* slugify(str): lower case, every run of other characters than a-z0-9 a
\* dash, no dash at either end (the names in play are shorter than 40)
slugify(str) ==
  CASE str = "Weather" -> "weather"
    [] str = "WEATHER!" -> "weather"
    [] OTHER -> "unknown"

\* normalizeResults, line 83: the ID of a listing
discoveredId(l) == "discovered:" \o slugify(l.name)

\* no discovered capability is active
NoActive == [id \in {} |-> None]

\* an activation that leaves an active ID's entry as it is
activateDiscoveredOnce(active, l) ==
  IF discoveredId(l) \in DOMAIN active THEN active
  ELSE [id \in DOMAIN active \cup {discoveredId(l)} |->
          IF id = discoveredId(l)
          THEN [endpoint |-> l.url, cost |-> DiscoveredCap.cost,
                provider |-> l.provider]
          ELSE active[id]]

\* activateDiscovered, lines 135-155: activeDiscovered.set(cap.id, cap),
\* with the listing's endpoint, price and provider
activateDiscovered(active, l) ==
  [id \in DOMAIN active \cup {discoveredId(l)} |->
     IF id = discoveredId(l)
     THEN [endpoint |-> l.url, cost |-> DiscoveredCap.cost,
           provider |-> l.provider]
     ELSE active[id]]

\* the entry of a matched capability: `matched`
Cap(id) ==
  IF id = DiscoveredCap.id THEN DiscoveredCap
  ELSE capabilities[findCapability(id)]

(* ------------------------------ inputs -------------------------------- *)

Proofs == {"proofA", "proofB"}

\* sha256(paymentHeader).digest("hex").slice(0, 16): the proofs in play have
\* distinct 64-bit prefixes.
paymentHash(p) == IF p = "proofA" THEN "a1" ELSE "b2"

Hashes == {paymentHash(p) : p \in Proofs}

Wallets == {"0xW1"}

\* x-test-key header values
TestKeys == {None, "", "k1", "bad"}

ALLOWED_TEST_IPS == {"127.0.0.1", "::1"}

startsWithFdaa(ip) == ip = "fdaa:0:1"

\* tasks, as the words they contain and whether they hold an absolute URL
Tasks == {"screenshot https://example.com", "capture the page",
          "locate this ip", "forecast the weather"}

TaskWords(t) ==
  CASE t = "screenshot https://example.com" -> {"screenshot", "https://example.com"}
    [] t = "capture the page" -> {"capture", "the", "page"}
    [] t = "locate this ip" -> {"locate", "this", "ip"}
    [] t \in {"predict the rain", "Predict the Rain"} -> {"predict", "the", "rain"}
    [] t = "to the" -> {"to", "the"}
    [] OTHER -> {"forecast", "the", "weather"}

\* String.prototype.toLowerCase, on the strings in play
toLowerCase(w) ==
  CASE w = "0xAB" -> "0xab"
    [] w = "Predict Rain" -> "predict rain"
    [] OTHER -> w

\* extractSearchTerms(task): the task without URLs, addresses and noise
\* words, null (None) when nothing is left
extractSearchTerms(t) ==
  CASE t = "screenshot https://example.com" -> "screenshot"
    [] t = "capture the page" -> "capture page"
    [] t = "locate this ip" -> "locate ip"
    [] t = "forecast the weather" -> "forecast weather"
    [] t = "predict the rain" -> "predict rain"
    [] t = "Predict the Rain" -> "Predict Rain"
    [] OTHER -> None

TaskHasUrl(t) == t = "screenshot https://example.com"

\* task.includes(s), on the lower-cased task
includes(t, s) == s \in TaskWords(t)

ParamKeys == {"url", "format"}

\* a parameter value: not given, a falsy value (0, "", false), a truthy one
ParamVals == {"absent", "falsy", "value"}

NoParams == [k \in ParamKeys |-> "absent"]

\* the explicit params objects a caller sends
ParamObjects ==
  {NoParams,
   [NoParams EXCEPT !["url"] = "value"],
   [NoParams EXCEPT !["url"] = "falsy"]}

\* the params field of the body: given is FALSE when the body has none
NoExplicitParams == [given |-> FALSE, vals |-> NoParams]

ExplicitParams ==
  {NoExplicitParams} \cup {[given |-> TRUE, vals |-> o] : o \in ParamObjects}

\* budget field of the body: absent, a number or a string, in micro-dollars
NoBudget == [kind |-> "absent", micro |-> 0]

Budgets ==
  {NoBudget,
   [kind |-> "number", micro |-> 0],
   [kind |-> "string", micro |-> 0],
   [kind |-> "number", micro |-> 7000]}

\* JavaScript truthiness of the budget field: undefined and the number 0
\* are falsy, every non-empty string ("0", "$0") is truthy
truthyBudget(b) ==
  \/ b.kind = "string"
  \/ (b.kind = "number" /\ b.micro # 0)

(* ------------------------- requests and replies ----------------------- *)

NoResp == [status |-> 0, error |-> None, capId |-> None, cost |-> 0,
           amount |-> 0, retries |-> Absent, missing |-> {},
           failedStep |-> Absent, completedSteps |-> Absent,
           stepResults |-> <<>>, costBreakdown |-> <<>>]

\* res.status(status).json({error, capability, cost ...}); retries is the
\* body's retries or meta.retries (Absent: the body has none), missing is
\* the body's `required` list; failedStep, completedSteps, stepResults and
\* costBreakdown are the fields of a chain's envelope
Response(status, error, capId, cost, amount) ==
  [NoResp EXCEPT !.status = status, !.error = error, !.capId = capId,
                 !.cost = cost, !.amount = amount]

\* the same body with a retry count
withRetries(resp, n) == [resp EXCEPT !.retries = n]

\* A request slot.  pc is the handler's position:
\*   idle       no request
\*   discovering  /do awaits the bazaar's answer to searchBazaar's POST
\*   fallback   /do awaits the bazaar's answer to searchBazaar's GET
\*   planning   /do/chain awaits planSteps
\*   gate       matched and within budget, about to run x402PaymentCheck
\*   verifying  awaiting the facilitator's reply
\*   paid       the gate called next(), the continuation is about to run
\*   calling    awaiting the backend's reply to attempt number `attempt`
\*              (of step number `step` of the plan, for a chain)
\*   sleeping   the wrapped call awaits sleep(RETRY_DELAYS[attempt])
\*   done       the response was sent
\*   hung       the continuation threw outside any try: no response is sent
\* matchedBy tells how /do found the capability: by the ID the body names
\* ("id"), by the task ("task") or by a search of the bazaar ("discovery").
\* presentedAt (when the proof reached the replay check), repeated (the proof
\* had been presented before), nonceAt (the entry the check found), replayed
\* (the check's answer), verifyReply, facilitatorCalls, backendCalls, logged
\* (records appended) and logIndex (where) record what happened to the request.
\* Inside a wrapped call: retries (the loop's variable), callMs (milliseconds
\* since breaker.fire), attemptStartMs (callMs when the running attempt
\* began), slept (the sleep that preceded it), lastReply (how the latest
\* attempt that ended did end) and timedOut (the breaker's timeout ended the
\* call).
\* firedIn, streakAtFire and overAtFire record the breaker at fire().
\* For a chain: planned (what the planner model answered) and dryRun (the
\* body's dryRun).  gateEntries counts the runs of x402PaymentCheck for the
\* request and verifyAmount is the amount sent to the facilitator.
\* stepResults and costBreakdown are executePlan's arrays, chainMs the
\* milliseconds the completed steps of the chain took and stepOutcomes how
\* the calls of its steps ended, in the order they ended.
\* sentKey is the x-test-key header of the request's latest backend call,
\* extracted the params /do validated and finalParams the params it sent on.
\* For a usage query: peerKey (x-test-key), peerIp (the address usageAuth
\* computes), queryWallet (the wallet query parameter as sent) and rows (the
\* rows of usage_log the aggregation ran over).
\* the search a request made (a record of the run): its terms, when it asked
\* the cache, whether a 2xx answer (saw2xx), and one whose body could be read
\* (sawRead, with its results: expected), had come for the same terms less
\* than the cache's lifetime before, whether the cache answered, the
\* requests sent to the bazaar and the results
NoLookup ==
  [searched |-> FALSE, terms |-> None, at |-> Absent, saw2xx |-> FALSE,
   sawRead |-> FALSE, expected |-> None, fromCache |-> FALSE,
   bazaarCalls |-> 0, results |-> None]

IdleReq ==
  [pc |-> "idle", endpoint |-> None, task |-> None,
   cap |-> None, matchSource |-> None, matchedBy |-> None, budget |-> NoBudget, estimatedCost |-> 0,
   plan |-> <<>>, step |-> 0, totalStart |-> 0, startedAt |-> 0,
   paymentHeader |-> None, wallet |-> None,
   bypassed |-> FALSE, paymentVerified |-> FALSE, presentedAt |-> Absent,
   repeated |-> FALSE, nonceAt |-> Absent, replayed |-> FALSE,
   verifyReply |-> None, facilitatorCalls |-> 0,
   attempt |-> 0, retries |-> 0, callMs |-> 0, attemptStartMs |-> 0,
   slept |-> 0, lastReply |-> None, timedOut |-> FALSE,
   firedIn |-> None, streakAtFire |-> 0, overAtFire |-> FALSE,
   planned |-> [ok |-> FALSE, steps |-> <<>>], dryRun |-> FALSE,
   lookup |-> NoLookup, target |-> NoUrl,
   gateEntries |-> 0, verifyAmount |-> Absent,
   stepResults |-> <<>>, costBreakdown |-> <<>>, chainMs |-> 0,
   stepOutcomes |-> <<>>,
   sentKey |-> None, extracted |-> NoParams, finalParams |-> NoParams,
   backendCalls |-> 0, logged |-> 0, logIndex |-> 0,
   peerKey |-> None, peerIp |-> None, queryWallet |-> None, rows |-> {},
   resp |-> NoResp]

\* the facilitator's answers: 2xx with isValid true, 2xx with isValid false,
\* a non-2xx status, a transport error
VerifyReplies == {"ok_valid", "ok_invalid", "non2xx", "throws"}

\* a backend attempt's outcomes: 2xx, a 402, another 4xx, a 5xx, a
\* transport error
BackendReplies == {"ok", "s402", "s404", "s500", "throws"}

(* ----------------------------- matching ------------------------------- *)

RECURSIVE keywordScore(_, _)
\* for (const keyword of cap.keywords) if (task.includes(keyword)) score += keyword.length
keywordScore(t, ks) ==
  IF ks = {} THEN 0
  ELSE LET k == CHOOSE x \in ks : TRUE
       IN (IF includes(t, k) THEN Len(k) ELSE 0) + keywordScore(t, ks \ {k})

\* the score matchTask gives capability number i
taskScore(t, i) ==
  keywordScore(t, capabilities[i].keywords)
  + (IF includes(t, capabilities[i].name) THEN 10 ELSE 0)
  + (IF includes(t, capabilities[i].id) THEN 15 ELSE 0)

\* matchTask: the first capability with the highest score, if above 0
\* (its index; 0 for null)
matchTask(t) ==
  LET best == {i \in 1..Len(capabilities) :
                 /\ taskScore(t, i) > 0
                 /\ \A j \in 1..Len(capabilities) :
                      \/ taskScore(t, j) < taskScore(t, i)
                      \/ (taskScore(t, j) = taskScore(t, i) /\ i <= j)}
  IN IF best = {} THEN 0 ELSE CHOOSE i \in best : TRUE

\* extractParams(task, capability): the URL goes to the field named url
extractParams(t, capId) ==
  [k \in ParamKeys |->
     IF k = "url" /\ TaskHasUrl(t) /\ "url" \in Cap(capId).keys
     THEN "value" ELSE "absent"]

\* a validation that takes every value for present
missingParamsUndefined(capId, fp) ==
  {k \in Cap(capId).required : fp[k] = "absent"}

\* !finalParams[key]: undefined, 0, "" and false all count as missing
missingParams(capId, fp) ==
  {k \in Cap(capId).required : fp[k] # "value"}

\* app.post("/do"), lines 637-642: a field that is undefined gets the
\* schema's default
applyDefaults(capId, fp) ==
  [k \in ParamKeys |->
     IF fp[k] = "absent" /\ k \in Cap(capId).defaults THEN "value" ELSE fp[k]]

(* ---------------------------- payment gate ---------------------------- *)

\* req.headers["x-forwarded-for"]?.split(",")[0]?.trim() || req.ip
clientIp(xff, ip) == IF xff # None THEN xff ELSE ip

\* ALLOWED_TEST_IPS.includes(ip) || ip.startsWith("fdaa:")
isInternal(ip) == ip \in ALLOWED_TEST_IPS \/ startsWithFdaa(ip)

\* a test bypass that does not look at the address
testBypassAnyIp(key, testKey, ip) ==
  /\ key # ""
  /\ testKey = key

\* the test bypass of x402PaymentCheck
testBypass(key, testKey, ip) ==
  /\ key # ""
  /\ testKey = key
  /\ isInternal(ip)

\* req.headers["x-payment"] || req.headers["payment-signature"]
paymentHeaderOf(xPayment, paymentSignature) ==
  IF xPayment # None THEN xPayment ELSE paymentSignature

\* the periodic clean-up of isReplayedPayment: entries older than the TTL go
sweepNonces(nonces, t) ==
  [h \in Hashes |->
     IF nonces[h] # Absent /\ (t - nonces[h]) * TickMs > NONCE_TTL
     THEN Absent ELSE nonces[h]]

\* paymentNonces.has(hash)
hasNonce(nonces, p) == nonces[paymentHash(p)] # Absent

\* a replay check that looks the proof up and never remembers it
isReplayedPaymentNoSet(nonces, p, t, sweep) ==
  LET cleaned == IF sweep THEN sweepNonces(nonces, t) ELSE nonces
  IN <<hasNonce(cleaned, p), cleaned>>

\* isReplayedPayment(paymentHeader): <<the answer, the map afterwards>>;
\* sweep is Math.random() < 0.01
isReplayedPayment(nonces, p, t, sweep) ==
  LET cleaned == IF sweep THEN sweepNonces(nonces, t) ELSE nonces
  IN IF hasNonce(cleaned, p)
     THEN <<TRUE, cleaned>>
     ELSE <<FALSE, [cleaned EXCEPT ![paymentHash(p)] = t]>>

\* verifyRes.ok: only the status is looked at
verifyAccepted(reply) == reply \in {"ok_valid", "ok_invalid"}

(* ---------------------------- usage ledger ---------------------------- *)

\* a ledger that drops the record
logUsageDropped(log, walletAddress, capId, cost, success) == log

\* logUsage(walletAddress, capabilityId, cost, success, latencyMs)
logUsage(log, walletAddress, capId, cost, success) ==
  Append(log, [wallet |-> IF walletAddress = None THEN "anonymous" ELSE walletAddress,
               capability |-> capId, cost |-> cost, success |-> success])

\* req._paymentPayload: set only when the facilitator accepted
paymentPayload(q) == IF q.paymentVerified THEN q.paymentHeader ELSE None

\* req.headers["x-wallet-address"] || req._paymentPayload || "anonymous"
successWallet(q) ==
  IF q.wallet # None THEN q.wallet
  ELSE IF paymentPayload(q) # None THEN paymentPayload(q) ELSE "anonymous"

\* req.headers["x-wallet-address"] || "anonymous"
failureWallet(q) == IF q.wallet # None THEN q.wallet ELSE "anonymous"

(* -------------------------- reliability layer ------------------------- *)

\* an isRetryable that takes every error status for retryable
isRetryableAnyStatus(reply) == reply \in {"s402", "s404", "s500"}

\* isRetryable(result): an error result with a status of 500 or more
isRetryable(reply) == reply = "s500"

\* a schedule that always waits the first delay
retryDelayFirst(attempt) == RETRY_DELAYS[1]

\* RETRY_DELAYS[attempt], for the loop's attempt numbers 0, 1, 2
retryDelay(attempt) == RETRY_DELAYS[attempt + 1]

\* callBackend, lines 425-430: the x-test-key header of the request it sends
callBackendHeaders ==
  IF BACKEND_BYPASS_KEY # "" THEN BACKEND_BYPASS_KEY ELSE None

\* breaker.fire runs the action: the first attempt starts at once
fire(q, t) ==
  [q EXCEPT !.pc = "calling", !.attempt = 0, !.retries = 0, !.callMs = 0,
            !.attemptStartMs = 0, !.slept = 0, !.lastReply = None,
            !.timedOut = FALSE, !.startedAt = t,
            !.backendCalls = @ + 1, !.sentKey = callBackendHeaders]

\* a call of a discovered service that carries the gateway's credential
discoveredHeadersWithKey == callBackendHeaders

\* callDiscoveredBackend, line 202: the headers hold Content-Type only
discoveredHeaders == None

\* app.post("/do"), line 655: res.status(result.status || 500)
resultStatus(status) == IF status = Absent THEN 500 ELSE status

\* callDiscoveredBackend, lines 192-208: a blocked endpoint gives an error
\* result without a status, which /do answers (server.js 654-661); otherwise
\* one request, outside any breaker
callDiscoveredBackend(q, t) ==
  IF isBlockedEndpoint(q.target)
  THEN [q EXCEPT !.pc = "done",
                 !.resp = Response(resultStatus(Absent), "blocked_endpoint",
                                   q.cap, 0, 0)]
  ELSE [q EXCEPT !.pc = "calling", !.attempt = 0, !.retries = 0, !.callMs = 0,
                 !.attemptStartMs = 0, !.slept = 0, !.lastReply = None,
                 !.timedOut = FALSE, !.startedAt = t,
                 !.backendCalls = @ + 1, !.sentKey = discoveredHeaders]

\* the status a backend error result carries (callBackend,
\* callDiscoveredBackend)
replyStatus(reply) ==
  CASE reply = "s402" -> 402
    [] reply = "s404" -> 404
    [] reply = "throws" -> 502
    [] OTHER -> 500

\* the error code of an error result: callBackend's for a native
\* capability, callDiscoveredBackend's for a discovered one (which turns a
\* transport error into a result as well)
replyError(source, reply) ==
  CASE reply = "s402" -> IF source = "discovered"
                         THEN "provider_payment_required"
                         ELSE "backend_payment_required"
    [] reply = "throws" -> "discovery_backend_error"
    [] OTHER -> "backend_error"

NoStats == [successes |-> 0, failures |-> 0, totalCalls |-> 0]

recordSuccess(st, capId) ==
  [st EXCEPT ![capId].successes = @ + 1, ![capId].totalCalls = @ + 1]

\* a failure that is counted as a failure only
recordFailureUncounted(st, capId) ==
  [st EXCEPT ![capId].failures = @ + 1]

recordFailure(st, capId) ==
  [st EXCEPT ![capId].failures = @ + 1, ![capId].totalCalls = @ + 1]

(* --------------------------- circuit breakers ------------------------- *)
\* opossum's CircuitBreaker, as configured at reliability.js 104-111.  A
\* breaker counts the calls fired and the calls failed in a rolling window,
\* kept here per clock tick: cur for the tick `at`, prev for the tick before.
\* streak counts the failed calls since the last success, streakAt is the
\* time of the first of them, and over tells whether the latest failure left
\* more than errorThresholdPercentage of the window's calls failed.

NoCount == [fires |-> 0, failures |-> 0]

NoBreaker ==
  [state |-> "closed", pendingClose |-> FALSE, openedAt |-> Absent,
   at |-> 0, cur |-> NoCount, prev |-> NoCount, streak |-> 0, streakAt |-> 0,
   over |-> FALSE]

\* the ticks whose calls the rolling window still counts, besides the
\* current one
windowTicks == {k \in 1..MaxTicks + 1 : k * TickMs < ROLLING_COUNT_TIMEOUT}

\* the window moves on to time t
roll(b, t) ==
  IF t = b.at THEN b
  ELSE [b EXCEPT !.at = t, !.cur = NoCount,
                 !.prev = IF (t - b.at) \in windowTicks THEN b.cur ELSE NoCount]

\* the breaker at time t: resetTimeout after it opened it is half-open and
\* will admit one call
settle(b, t) ==
  LET b1 == roll(b, t)
  IN IF b1.state = "open" /\ (t - b1.openedAt) * TickMs >= RESET_TIMEOUT
     THEN [b1 EXCEPT !.state = "halfOpen", !.pendingClose = TRUE]
     ELSE b1

\* the calls and failures the window counts
windowFires(b) == b.cur.fires + b.prev.fires
windowFailures(b) == b.cur.failures + b.prev.failures

\* fire() runs the action: the breaker is closed, or half-open with its
\* probe not yet taken
admits(b) == b.state = "closed" \/ b.pendingClose

\* fire(): the call is counted; an admitted call takes the probe
onFire(b) == [b EXCEPT !.cur.fires = @ + 1, !.pendingClose = FALSE]

\* the breaker opens (again) at time t
open(b, t) ==
  IF b.state = "open" THEN b
  ELSE [b EXCEPT !.state = "open", !.pendingClose = FALSE, !.openedAt = t]

\* the action resolved: a half-open breaker closes
onSuccess(b) ==
  [b EXCEPT !.state = IF @ = "halfOpen" THEN "closed" ELSE @,
            !.pendingClose = FALSE, !.streak = 0]

\* the action rejected or timed out: the breaker opens when it is half-open,
\* or when the window holds volumeThreshold calls of which more than
\* errorThresholdPercentage in a hundred failed
onFailure(b, t) ==
  LET b0 == [b EXCEPT !.cur.failures = @ + 1, !.streak = @ + 1,
                      !.streakAt = IF b.streak = 0 THEN t ELSE @]
      b1 == [b0 EXCEPT !.over = windowFailures(b0) * 100
                                  > ERROR_THRESHOLD_PERCENTAGE * windowFires(b0)]
  IN IF windowFires(b1) < VOLUME_THRESHOLD /\ b1.state # "halfOpen"
     THEN b1
     ELSE IF b1.over \/ b1.state = "halfOpen"
          THEN open(b1, t)
          ELSE b1

\* a getCircuitState that knows no half-open state
getCircuitStateTwoStates(b) ==
  IF b.state = "closed" THEN "closed" ELSE "open"

\* getCircuitState(capabilityId)
getCircuitState(b) ==
  IF b.state = "open" THEN "open"
  ELSE IF b.state = "halfOpen" THEN "half-open" ELSE "closed"

\* what fire() answers for a capability at time t (TRUE: "Breaker is open"):
\* what the breaker's state makes it answer, or anything when the calls
\* before the ones followed are left open
fireAnswers(E, bs, capId, t) ==
  IF E.follow /\ capId \in CapIds
  THEN {~admits(settle(bs[capId], t))}
  ELSE E.breakerOpen

\* the breakers after fire() for a capability at time t
fired(E, bs, capId, t) ==
  IF E.follow /\ capId \in CapIds
  THEN [bs EXCEPT ![capId] = onFire(settle(@, t))]
  ELSE bs

\* the request that called fire() at time t, with what its capability's
\* breaker was then: firedIn (its state), streakAtFire (the failed calls since
\* the last success, when all of them are inside the rolling window) and
\* overAtFire
noteFire(E, q, bs, capId, t) ==
  IF E.follow /\ capId \in CapIds
  THEN LET b == settle(bs[capId], t)
       IN [q EXCEPT !.firedIn = getCircuitState(b),
                    !.streakAtFire =
                       IF (t - b.streakAt) * TickMs < ROLLING_COUNT_TIMEOUT
                       THEN b.streak ELSE 0,
                    !.overAtFire = b.over]
  ELSE q

\* a wrapper that returns an error result to the breaker instead of throwing
\* it
endedReturned(E, bs, capId, ok, t) ==
  IF E.follow /\ capId \in CapIds
  THEN [bs EXCEPT ![capId] = onSuccess(settle(@, t))]
  ELSE bs

\* the breakers after a wrapped call ended at time t: an error result is
\* thrown so that the breaker counts a failure
ended(E, bs, capId, ok, t) ==
  IF E.follow /\ capId \in CapIds
  THEN [bs EXCEPT ![capId] = IF ok THEN onSuccess(settle(@, t))
                             ELSE onFailure(settle(@, t), t)]
  ELSE bs

(* ---------------------------- environments --------------------------- *)

\* the explicit capability IDs a body may name
CapabilityNames == CapIds \cup {DiscoveredCap.id, "nope", None}

\* the (x-forwarded-for, socket address) pairs requests arrive with:
\* loopback, Fly internal (fdaa: prefix) and public addresses
Origins ==
  {<<None, "127.0.0.1">>, <<None, "fdaa:0:1">>, <<None, "203.0.113.9">>,
   <<"127.0.0.1", "203.0.113.9">>, <<"203.0.113.9", "127.0.0.1">>}

\* the (x-payment, payment-signature) pairs requests arrive with
PaymentHeaders ==
  {<<None, None>>, <<"proofA", None>>, <<"proofB", None>>,
   <<None, "proofA">>, <<"proofA", "proofB">>}

\* what the planner model answers: no usable answer, or a list of steps
Plans ==
  {[ok |-> FALSE, steps |-> <<>>],
   [ok |-> TRUE, steps |-> <<>>],
   [ok |-> TRUE, steps |-> <<"ip-geo">>],
   [ok |-> TRUE, steps |-> <<"screenshot", "ip-geo">>],
   [ok |-> TRUE, steps |-> <<"ip-geo", "bogus">>],
   [ok |-> TRUE, steps |-> [i \in 1..(MAX_STEPS + 1) |-> "ip-geo"]]}

\* What the outside world sends: request fields and the replies of the
\* bazaar, the planner, the facilitator, the breaker and the backends.
EnvFull ==
  [requests |-> MaxRequests,
   tasks |-> Tasks \cup {None}, capabilities |-> CapabilityNames,
   bazaar |-> {"none", "found"},
   chainTasks |-> {None, "locate this ip"}, plans |-> Plans,
   dryRuns |-> BOOLEAN,
   budgets |-> Budgets, testKeys |-> TestKeys, origins |-> Origins,
   paymentHeaders |-> PaymentHeaders, sweeps |-> BOOLEAN,
   verifyReplies |-> VerifyReplies, params |-> ExplicitParams,
   follow |-> FALSE, breakerOpen |-> BOOLEAN,
   backendReplies |-> BackendReplies, durations |-> {0},
   wallets |-> Wallets \cup {None}]

\* Paying callers of one capability, with no test key: the requests whose
\* interleavings the replay set decides, one request per slot.
EnvRace ==
  [requests |-> Cardinality(Slots),
   tasks |-> {None}, capabilities |-> {"ip-geo"},
   bazaar |-> {"none"},
   chainTasks |-> {"locate this ip"},
   plans |-> {[ok |-> TRUE, steps |-> <<"ip-geo">>]},
   dryRuns |-> {FALSE},
   budgets |-> {NoBudget}, testKeys |-> {None},
   origins |-> {<<None, "203.0.113.9">>},
   paymentHeaders |-> {<<None, None>>, <<"proofA", None>>, <<"proofB", None>>,
                       <<None, "proofA">>},
   sweeps |-> BOOLEAN,
   verifyReplies |-> VerifyReplies,
   params |-> {[given |-> TRUE, vals |-> NoParams]},
   follow |-> FALSE, breakerOpen |-> BOOLEAN,
   backendReplies |-> {"ok", "s404"}, durations |-> {0},
   wallets |-> {None}]

\* One caller of one native capability from the test peer, with backends
\* that answer fast, slowly, or later than the breaker waits (milliseconds).
EnvCall ==
  [requests |-> MaxRequests,
   tasks |-> {None}, capabilities |-> {"ip-geo"},
   bazaar |-> {"none"},
   budgets |-> {NoBudget}, testKeys |-> {"k1"},
   origins |-> {<<None, "127.0.0.1">>},
   paymentHeaders |-> {<<None, None>>}, sweeps |-> {FALSE},
   params |-> {[given |-> TRUE, vals |-> NoParams]},
   follow |-> FALSE, breakerOpen |-> BOOLEAN,
   backendReplies |-> BackendReplies,
   durations |-> {100, 20000, 59000, 70000},
   wallets |-> {None}]

\* The callers of one native capability from the test peer, with the
\* capability's breaker followed from the start of the process.
EnvBreaker ==
  [requests |-> MaxCalls,
   tasks |-> {None}, capabilities |-> {"ip-geo"},
   bazaar |-> {"none"},
   budgets |-> {NoBudget}, testKeys |-> {"k1"},
   origins |-> {<<None, "127.0.0.1">>},
   paymentHeaders |-> {<<None, None>>}, sweeps |-> {FALSE},
   params |-> {[given |-> TRUE, vals |-> NoParams]},
   follow |-> TRUE, breakerOpen |-> {FALSE},
   backendReplies |-> {"ok", "s404"}, durations |-> {0},
   wallets |-> {None}]

\* The test peer's chains of three and four steps of one capability, with
\* backends that answer fast or slowly (milliseconds).
EnvChain ==
  [requests |-> MaxRequests,
   chainTasks |-> {"locate this ip"},
   plans |-> {[ok |-> TRUE, steps |-> <<"ip-geo", "ip-geo", "ip-geo">>],
              [ok |-> TRUE, steps |-> <<"ip-geo", "ip-geo", "ip-geo", "ip-geo">>]},
   dryRuns |-> {FALSE},
   budgets |-> {NoBudget}, testKeys |-> {"k1"},
   origins |-> {<<None, "127.0.0.1">>},
   paymentHeaders |-> {<<None, None>>}, sweeps |-> {FALSE},
   params |-> {NoExplicitParams},
   follow |-> FALSE, breakerOpen |-> {FALSE},
   backendReplies |-> {"ok", "s404", "s500"},
   durations |-> {100, 40000, 59000},
   wallets |-> {None}]

\* The test peer's requests for a native capability and for a service of the
\* bazaar: by a task no capability matches, by a task that holds a keyword of
\* the activated service, by the activated service's ID.
EnvLookup ==
  [requests |-> MaxLookups,
   tasks |-> {None, "forecast the weather", "locate this ip"},
   capabilities |-> {None, DiscoveredCap.id},
   bazaar |-> {"none", "found"},
   budgets |-> {NoBudget}, testKeys |-> {"k1"},
   origins |-> {<<None, "127.0.0.1">>},
   paymentHeaders |-> {<<None, None>>}, sweeps |-> {FALSE},
   params |-> {NoExplicitParams, [given |-> TRUE, vals |-> NoParams]},
   follow |-> FALSE, breakerOpen |-> {FALSE},
   backendReplies |-> {"ok", "s404"}, durations |-> {0},
   wallets |-> {None}]

\* Callers of a service the registry does not hold, by task or by the ID it
\* is activated under, with and without the test key and a budget below the
\* service's price, while the bazaar's listing of the service changes.
EnvActivate ==
  [requests |-> MaxActivations,
   tasks |-> {None, "forecast the weather"},
   capabilities |-> {None, DiscoveredCap.id},
   bazaar |-> {"none", "found", "moved", "internal"},
   budgets |-> {NoBudget, [kind |-> "number", micro |-> 7000]},
   testKeys |-> {None, "k1"},
   origins |-> {<<None, "127.0.0.1">>},
   paymentHeaders |-> {<<None, None>>}, sweeps |-> {FALSE},
   params |-> {NoExplicitParams},
   follow |-> FALSE, breakerOpen |-> {FALSE},
   backendReplies |-> {"ok"}, durations |-> {0},
   wallets |-> {None}]

\* Callers without payment whose tasks no capability matches, the same
\* search in two spellings among them and a task of noise words only, with
\* every answer the bazaar may give to a search.
EnvCache ==
  [requests |-> MaxSearches,
   tasks |-> {"predict the rain", "Predict the Rain", "to the"},
   capabilities |-> {None},
   bazaar |-> {"none", "found", "non2xx", "throws", "unreadable"},
   budgets |-> {NoBudget}, testKeys |-> {None},
   origins |-> {<<None, "203.0.113.9">>},
   paymentHeaders |-> {<<None, None>>}, sweeps |-> {FALSE},
   params |-> {NoExplicitParams},
   follow |-> FALSE, breakerOpen |-> {FALSE},
   backendReplies |-> {"ok"}, durations |-> {0},
   wallets |-> {None}]

\* the same callers, fewer calls
EnvProbe == [EnvBreaker EXCEPT !.requests = MaxProbes]

(* ------------------------------ actions ------------------------------- *)

\* the addresses whose requests the rate limiter is followed for
ClientIps == {"198.51.100.7", "203.0.113.9"}

NoBucket == [windowStart |-> Absent, count |-> 0]

\* For each address: the non-exempt requests it sent at time `at` and how
\* many of them the limiter let through; last is the latest request of all.
NoTally == [at |-> 0, asked |-> 0, admitted |-> 0]

\* the process starts with an empty Map; no request has arrived
NoArrivals ==
  /\ gatewayRateLimits = [ip \in ClientIps |-> NoBucket]
  /\ arrivals = [tally |-> [ip \in ClientIps |-> NoTally],
                 last |-> [ip |-> None, path |-> None, status |-> 0]]

\* a listing without cost, price or maxAmountRequired
NoCost == [kind |-> "absent", raw |-> FALSE, v |-> 0]

NoListing == [url |-> NoUrl, cost |-> NoCost]

NotNormalized ==
  [stage |-> "none", providerUrl |-> NoUrl, providerCost |-> 0,
   pylonCost |-> 0, pylonFee |-> 0]

\* no service of the bazaar is being looked at
NoService ==
  /\ service = NoListing
  /\ normalized = NotNormalized
  /\ outbound = None

\* no chain step is being looked at
NoBuild == [done |-> FALSE, given |-> FALSE]

DISCOVERY_CACHE_TTL == 300000

\* the strings searchBazaar may be asked for, and the keys of its cache
SearchTerms == {"forecast weather", "predict rain", "Predict Rain"}

\* the search strings as they are equal ignoring case
searchKey(terms) == IF terms = "Predict Rain" THEN "predict rain" ELSE terms

NoEntry == [results |-> None, timestamp |-> Absent]

NoAnswer == [anyAt |-> Absent, readAt |-> Absent, results |-> None]

NoLookups ==
  /\ discoveryCache = [k \in SearchTerms |-> NoEntry]
  /\ bazaarLog = [k \in {searchKey(x) : x \in SearchTerms} |-> NoAnswer]

\* a cache keyed by the search string as it was typed
cacheKeyAsTyped(query) == query

\* query.toLowerCase().trim() (the terms are trimmed already)
cacheKey(query) == toLowerCase(query)

\* did something that happened at time `at` happen less than the cache's
\* lifetime before t
within(at, t) == at # Absent /\ (t - at) * TickMs < DISCOVERY_CACHE_TTL

\* cached && Date.now() - cached.timestamp < DISCOVERY_CACHE_TTL
cacheFresh(cached, t) ==
  /\ cached.timestamp # Absent
  /\ (t - cached.timestamp) * TickMs < DISCOVERY_CACHE_TTL

Init ==
  /\ now = 0
  /\ received = 0
  /\ running = 0
  /\ TEST_BYPASS_KEY \in {"", "k1"}
  /\ req = [r \in Slots |-> IdleReq]
  /\ paymentNonces = [h \in Hashes |-> Absent]
  /\ activeDiscovered = NoActive
  /\ usageLog = <<>>
  /\ stats = [c \in CapIds |-> NoStats]
  /\ behind = [c \in CapIds |-> 0]
  /\ breakers = [c \in CapIds |-> NoBreaker]
  /\ firstPresented = [p \in Proofs |-> Absent]
  /\ NoArrivals
  /\ NoLookups
  /\ build = NoBuild
  /\ NoService

\* res.status(..).json(..): the response ends the request
respond(q, resp) == [q EXCEPT !.pc = "done", !.resp = resp]

\* app.post("/do"), lines 592-610: the budget check, then x402PaymentCheck
doMatched(q, capId, source, budget) ==
  LET c == Cap(capId)
      m == [q EXCEPT !.cap = capId, !.matchSource = source]
  IN IF truthyBudget(budget) /\ c.cost > budget.micro
     THEN respond(m, Response(400, "over_budget", capId, c.cost, 0))
     ELSE [m EXCEPT !.pc = "gate", !.estimatedCost = c.cost]

\* app.post("/do"), lines 551-557: the first active discovered capability
\* whose name or one of whose keywords the task holds
discoveredMatch(t, active) ==
  {id \in DOMAIN active :
     \/ includes(t, Cap(id).name)
     \/ \E k \in Cap(id).keywords : includes(t, k)}

\* app.post("/do"), lines 511-590: matching
doHandler(q, task, capability, budget, active) ==
  IF task = None /\ capability = None
  THEN respond(q, Response(400, "missing_task", None, 0, 0))
  ELSE IF capability # None
  THEN LET qi == [q EXCEPT !.matchedBy = "id"]
       IN IF findCapability(capability) # 0
          THEN doMatched(qi, capability, "native", budget)
          ELSE IF capability \in DOMAIN active
          THEN doMatched([qi EXCEPT !.target = active[capability].endpoint],
                         capability, "discovered", budget)
          ELSE respond(q, Response(404, "unknown_capability", None, 0, 0))
  ELSE LET qt == [q EXCEPT !.matchedBy = "task"]
       IN IF matchTask(task) # 0
          THEN doMatched(qt, capabilities[matchTask(task)].id, "native", budget)
          ELSE IF discoveredMatch(task, active) # {}
          THEN LET id == CHOOSE d \in discoveredMatch(task, active) : TRUE
               IN doMatched([qt EXCEPT !.target = active[id].endpoint], id,
                            "discovered", budget)
          ELSE [q EXCEPT !.pc = "discovering"]

\* a matching that activates the discovered service only for a request that
\* goes on to the gate
discoveryEndWithinBudget(q, results, active) ==
  IF results # "none"
  THEN LET m == doMatched([q EXCEPT !.matchedBy = "discovery",
                                    !.target = listing(results).url],
                          discoveredId(listing(results)), "discovered",
                          q.budget)
       IN [q |-> m,
           active |-> IF m.pc = "gate"
                      THEN activateDiscovered(active, listing(results))
                      ELSE active]
  ELSE [q |-> respond(q, Response(404, "no_matching_capability", None, 0, 0)),
        active |-> active]

\* app.post("/do"), lines 565-585, once discoverForTask has answered: the
\* first result is activated and matched, or the request ends 404
discoveryEnd(q, results, active) ==
  IF results # "none"
  THEN [q |-> doMatched([q EXCEPT !.matchedBy = "discovery",
                                  !.target = listing(results).url],
                        discoveredId(listing(results)), "discovered",
                        q.budget),
        active |-> activateDiscovered(active, listing(results))]
  ELSE [q |-> respond(q, Response(404, "no_matching_capability", None, 0, 0)),
        active |-> active]

\* discoverForTask and searchBazaar up to the first await (discovery.js
\* 112-117, 25-34): no search without terms, the cache's answer when it has a
\* fresh one, otherwise the POST to the bazaar
discoverForTask(q, task, cache, log, active, t) ==
  LET terms == extractSearchTerms(task)
  IN IF terms = None
     THEN discoveryEnd([q EXCEPT !.lookup = [NoLookup EXCEPT !.searched = TRUE,
                                                           !.at = t]],
                       "none", active)
     ELSE LET cached == cache[cacheKey(terms)]
              seen == log[searchKey(terms)]
              lk == [NoLookup EXCEPT
                       !.searched = TRUE, !.terms = terms, !.at = t,
                       !.saw2xx = within(seen.anyAt, t),
                       !.sawRead = within(seen.readAt, t),
                       !.expected = IF within(seen.readAt, t)
                                    THEN seen.results ELSE None]
          IN IF cacheFresh(cached, t)
             THEN discoveryEnd([q EXCEPT !.lookup =
                                  [lk EXCEPT !.fromCache = TRUE,
                                             !.results = cached.results]],
                               cached.results, active)
             ELSE [q |-> [q EXCEPT !.pc = "discovering",
                                   !.lookup = [lk EXCEPT !.bazaarCalls = 1]],
                   active |-> active]

\* POST /do arrives and its handler runs up to the payment gate or to the
\* search of the bazaar.  (The lowest free slot takes it: the slots are
\* interchangeable.)
DoReceive(r, E) ==
  /\ running = 0
  /\ req[r].pc = "idle"
  /\ \A s \in Slots : s < r => req[s].pc # "idle"
  /\ received < E.requests
  /\ \E task \in E.tasks, capability \in E.capabilities, budget \in E.budgets :
       LET q0 == [IdleReq EXCEPT !.endpoint = "do", !.task = task,
                                 !.budget = budget]
           q1 == doHandler(q0, task, capability, budget, activeDiscovered)
           out == IF q1.pc = "discovering"
                  THEN discoverForTask(q1, task, discoveryCache, bazaarLog,
                                       activeDiscovered, now)
                  ELSE [q |-> q1, active |-> activeDiscovered]
       IN /\ req' = [req EXCEPT ![r] = out.q]
          /\ activeDiscovered' = out.active
          /\ running' = IF out.q.pc = "gate" THEN r ELSE 0
  /\ received' = received + 1
  /\ UNCHANGED <<limiterVars, bazaarVars, cacheVars, stepVars>>
  /\ UNCHANGED <<now, TEST_BYPASS_KEY, paymentNonces, usageLog,
                 stats, breakers, firstPresented>>

\* searchBazaar, lines 34-60: the bazaar answers the POST or, after a POST
\* answered outside 2xx, the GET.  A 2xx answer whose body can be read is
\* normalized, cached and returned; every failure gives an empty list and
\* leaves the cache alone (a body that cannot be read throws into the
\* catch).  Then /do goes on (lines 565-585).
DiscoveryReply(r, E) ==
  /\ running = 0
  /\ req[r].pc \in {"discovering", "fallback"}
  /\ \E answer \in E.bazaar :
       LET q == req[r]
           key == cacheKey(q.lookup.terms)
           sk == searchKey(q.lookup.terms)
           read == answer \notin {"non2xx", "throws", "unreadable"}
           results == IF read THEN answer ELSE "none"
           out == discoveryEnd([q EXCEPT !.lookup.results = results], results,
                               activeDiscovered)
       IN IF answer = "non2xx" /\ q.pc = "discovering"
          THEN /\ req' = [req EXCEPT ![r] =
                            [q EXCEPT !.pc = "fallback",
                                      !.lookup.bazaarCalls = @ + 1]]
               /\ UNCHANGED <<activeDiscovered, cacheVars, running>>
          ELSE /\ req' = [req EXCEPT ![r] = out.q]
               /\ activeDiscovered' = out.active
               /\ discoveryCache' =
                    IF read
                    THEN [discoveryCache EXCEPT ![key] =
                            [results |-> results, timestamp |-> now]]
                    ELSE discoveryCache
               /\ bazaarLog' =
                    IF read
                    THEN [bazaarLog EXCEPT ![sk] =
                            [anyAt |-> now, readAt |-> now, results |-> results]]
                    ELSE IF answer = "unreadable"
                    THEN [bazaarLog EXCEPT ![sk].anyAt = now]
                    ELSE bazaarLog
               /\ running' = IF out.q.pc = "gate" THEN r ELSE 0
  /\ UNCHANGED <<limiterVars, bazaarVars, stepVars>>
  /\ UNCHANGED <<now, received, TEST_BYPASS_KEY, paymentNonces, usageLog,
                 stats, breakers, firstPresented>>

RECURSIVE planCost(_)
\* planSteps, lines 131-135: the sum of the steps' costs
planCost(steps) ==
  IF steps = <<>> THEN 0
  ELSE Cap(Head(steps)).cost + planCost(Tail(steps))

\* planSteps, lines 101-142: is the planner's answer a plan for this budget
planValid(reply, budgetNum) ==
  /\ reply.ok
  /\ Len(reply.steps) > 0
  /\ Len(reply.steps) <= MAX_STEPS
  /\ \A i \in 1..Len(reply.steps) : reply.steps[i] \in CapIds
  /\ planCost(reply.steps) <= budgetNum
  /\ planCost(reply.steps) <= MAX_BUDGET

\* POST /do/chain arrives, lines 240-255.
ChainReceive(r, E) ==
  /\ running = 0
  /\ req[r].pc = "idle"
  /\ \A s \in Slots : s < r => req[s].pc # "idle"
  /\ received < E.requests
  /\ \E task \in E.chainTasks, budget \in E.budgets :
       LET q0 == [IdleReq EXCEPT !.endpoint = "chain", !.budget = budget]
       IN req' = [req EXCEPT ![r] =
            IF task = None
            THEN respond(q0, Response(400, "missing_task", None, 0, 0))
            ELSE [q0 EXCEPT !.pc = "planning"]]
  /\ received' = received + 1
  /\ UNCHANGED <<limiterVars, bazaarVars, cacheVars, stepVars>>
  /\ UNCHANGED <<now, running, TEST_BYPASS_KEY, paymentNonces, activeDiscovered,
                 usageLog, stats, breakers, firstPresented>>

\* totalCost.toFixed(3), read back by parseFloat and Math.round(.. * 1e6):
\* micro-dollars rounded to a thousandth of a dollar
toFixed3(micro) == ((micro + 500) \div 1000) * 1000

\* a handler that does not look at dryRun
chainPlannedExecuted(q, steps, dryRun) ==
  [q EXCEPT !.pc = "gate", !.plan = steps,
            !.estimatedCost = toFixed3(planCost(steps))]

\* POST /do/chain, lines 257-271, with the plan planSteps returned: a dry run
\* answers with the plan, anything else sets req._estimatedCost to
\* plan.estimatedCost and goes to the payment gate
chainPlanned(q, steps, dryRun) ==
  IF dryRun
  THEN respond([q EXCEPT !.plan = steps],
               Response(200, None, None, toFixed3(planCost(steps)), 0))
  ELSE [q EXCEPT !.pc = "gate", !.plan = steps,
                 !.estimatedCost = toFixed3(planCost(steps))]

\* POST /do/chain, lines 251-292: planSteps returns or throws; a plan goes
\* on, a failure is answered orchestration_failed.
PlannerReply(r, E) ==
  /\ running = 0
  /\ req[r].pc = "planning"
  /\ \E reply \in E.plans, dryRun \in E.dryRuns :
       LET q == [req[r] EXCEPT !.planned = reply, !.dryRun = dryRun]
           budgetNum == IF truthyBudget(q.budget) THEN q.budget.micro
                        ELSE MAX_BUDGET
           valid == planValid(reply, budgetNum)
           q1 == IF ~valid
                 THEN respond(q, Response(400, "orchestration_failed", None, 0, 0))
                 ELSE chainPlanned(q, reply.steps, dryRun)
       IN /\ req' = [req EXCEPT ![r] = q1]
          /\ running' = IF q1.pc = "gate" THEN r ELSE 0
  /\ UNCHANGED <<limiterVars, bazaarVars, cacheVars, stepVars>>
  /\ UNCHANGED <<now, received, TEST_BYPASS_KEY, paymentNonces, activeDiscovered,
                 usageLog, stats, breakers, firstPresented>>

\* a gate that quotes its default price
quotedDefault(q) == 50000

\* Math.round(parseFloat((req._estimatedCost || "$0.05").replace("$", ""))
\* * 1_000_000): the amount of the 402 and of the verification request
\* (estimatedCost 0: req._estimatedCost is not set)
quotedMicro(q) == IF q.estimatedCost = 0 THEN 50000 ELSE q.estimatedCost

\* a gate that asks the facilitator for its terms before it answers a
\* request without proof
x402PaymentCheckAsking(q0, key, testKey, ip, ph, nonces, t, sweep) ==
  LET q == [q0 EXCEPT !.gateEntries = @ + 1]
  IN IF testBypass(key, testKey, ip)
     THEN [q |-> [q EXCEPT !.pc = "paid", !.bypassed = TRUE,
                           !.paymentHeader = ph],
           nonces |-> nonces]
     ELSE IF ph = None
     THEN [q |-> respond([q EXCEPT !.facilitatorCalls = 1],
                         Response(402, "payment_required", None, 0,
                                  quotedMicro(q))),
           nonces |-> nonces]
     ELSE LET rp == isReplayedPayment(nonces, ph, t, sweep)
              q1 == [q EXCEPT !.paymentHeader = ph, !.presentedAt = t,
                              !.nonceAt = nonces[paymentHash(ph)],
                              !.replayed = rp[1]]
          IN [q |-> IF rp[1]
                    THEN respond(q1, Response(402, "payment_replay", None, 0, 0))
                    ELSE [q1 EXCEPT !.pc = "verifying", !.facilitatorCalls = 1,
                                    !.verifyAmount = quotedMicro(q)],
              nonces |-> rp[2]]

\* x402PaymentCheck, lines 341-407, for a request whose x-test-key header is
\* testKey, whose client address is ip and whose payment header is ph: the
\* request and the replay set afterwards.  It ends in next() (pc "paid"), in
\* a response, or in the call of the facilitator (pc "verifying").
x402PaymentCheck(q0, key, testKey, ip, ph, nonces, t, sweep) ==
  LET q == [q0 EXCEPT !.gateEntries = @ + 1]
  IN IF testBypass(key, testKey, ip)
     THEN [q |-> [q EXCEPT !.pc = "paid", !.bypassed = TRUE,
                           !.paymentHeader = ph],
           nonces |-> nonces]
     ELSE IF ph = None
     THEN [q |-> respond(q, Response(402, "payment_required", None, 0,
                                     quotedMicro(q))),
           nonces |-> nonces]
     ELSE LET rp == isReplayedPayment(nonces, ph, t, sweep)
              q1 == [q EXCEPT !.paymentHeader = ph, !.presentedAt = t,
                              !.nonceAt = nonces[paymentHash(ph)],
                              !.replayed = rp[1]]
          IN [q |-> IF rp[1]
                    THEN respond(q1, Response(402, "payment_replay", None, 0, 0))
                    ELSE [q1 EXCEPT !.pc = "verifying", !.facilitatorCalls = 1,
                                    !.verifyAmount = quotedMicro(q)],
              nonces |-> rp[2]]

\* The payment gate runs for the request, with the headers it carries.
PaymentCheck(r, E) ==
  /\ running = r
  /\ req[r].pc = "gate"
  /\ \E testKey \in E.testKeys, origin \in E.origins,
        hdrs \in E.paymentHeaders, sweep \in E.sweeps :
       LET ph == paymentHeaderOf(hdrs[1], hdrs[2])
           out == x402PaymentCheck(req[r], TEST_BYPASS_KEY, testKey,
                                   clientIp(origin[1], origin[2]), ph,
                                   paymentNonces, now, sweep)
           presented == out.q.presentedAt # Absent
       IN /\ req' = [req EXCEPT ![r] =
                       [out.q EXCEPT !.repeated =
                          presented /\ firstPresented[ph] # Absent]]
          /\ paymentNonces' = out.nonces
          /\ firstPresented' =
               IF presented /\ firstPresented[ph] = Absent
               THEN [firstPresented EXCEPT ![ph] = now]
               ELSE firstPresented
          /\ running' = IF out.q.pc = "paid" THEN r ELSE 0
  /\ UNCHANGED <<limiterVars, bazaarVars, cacheVars, stepVars>>
  /\ UNCHANGED <<now, received, TEST_BYPASS_KEY, activeDiscovered, usageLog,
                 stats, breakers>>

\* a gate that lets the request through whatever status the facilitator
\* answers with
verifyOutcomeAnyStatus(q, reply) ==
  IF reply = "throws"
  THEN respond(q, Response(500, "verification_error", None, 0, 0))
  ELSE [q EXCEPT !.pc = "paid", !.paymentVerified = TRUE]

\* x402PaymentCheck, lines 409-420: what the gate does with the
\* facilitator's answer
verifyOutcome(q, reply) ==
  IF reply = "throws"
  THEN respond(q, Response(500, "verification_error", None, 0, 0))
  ELSE IF ~verifyAccepted(reply)
  THEN respond(q, Response(402, "verification_failed", None, 0, 0))
  ELSE [q EXCEPT !.pc = "paid", !.paymentVerified = TRUE]

\* The facilitator answers.
FacilitatorReply(r, E) ==
  /\ running = 0
  /\ req[r].pc = "verifying"
  /\ \E reply \in E.verifyReplies :
       LET q1 == verifyOutcome([req[r] EXCEPT !.verifyReply = reply], reply)
       IN /\ req' = [req EXCEPT ![r] = q1]
          /\ running' = IF q1.pc = "paid" THEN r ELSE 0
  /\ UNCHANGED <<limiterVars, bazaarVars, cacheVars, stepVars>>
  /\ UNCHANGED <<now, received, TEST_BYPASS_KEY, paymentNonces, activeDiscovered,
                 usageLog, stats, breakers, firstPresented>>

\* the envelope of a chain that stopped: executePlan's arrays as they are
withArrays(resp, q) ==
  [resp EXCEPT !.stepResults = q.stepResults,
               !.costBreakdown = q.costBreakdown]

\* executePlan, lines 197-218: the chain stops at the step that failed; the
\* loop's i counts from 0
stepFailure(q, error) ==
  respond(q, withArrays([Response(200, error, q.cap, 0, 0)
                           EXCEPT !.failedStep = q.step - 1], q))

\* Date.now() - totalStart at time t, in milliseconds
elapsedMs(q, t) == (t - q.totalStart) * TickMs + q.chainMs

\* executePlan, lines 156-192: step number i of the plan begins, unless the
\* chain has run out of time or the step's breaker is open
startStep(q, i, breakerOpen, t) ==
  IF elapsedMs(q, t) > TOTAL_TIMEOUT_MS
  THEN respond(q, withArrays([Response(200, "total_timeout", None, 0, 0)
                                EXCEPT !.completedSteps = i - 1], q))
  ELSE LET q1 == [q EXCEPT !.step = i, !.cap = q.plan[i]]
       IN IF breakerOpen
          THEN stepFailure(q1, "step_failed")
          ELSE fire(q1, t)

\* a wrapper that rethrows the breaker's rejection
circuitOpenRethrown(q) ==
  respond(q, Response(502, "backend_unavailable", q.cap, 0, 0))

\* fire() rejected with "Breaker is open": the wrapper returns a circuit_open
\* result (reliability.js 121-128), which /do answers with its status
circuitOpen(q) ==
  respond(q, withRetries(Response(503, "circuit_open", q.cap, 0, 0), 0))

\* app.post("/do"), lines 611-652: the continuation the gate calls, up to
\* the first backend attempt.  breakerOpen is opossum's answer to fire().
doDispatch(q0, explicitParams, breakerOpen, t) ==
  LET q == [q0 EXCEPT !.task = None]
      task == q0.task
  IN IF ~explicitParams.given /\ task = None
     THEN [q EXCEPT !.pc = "hung"]
     ELSE LET fp == IF explicitParams.given THEN explicitParams.vals
                    ELSE extractParams(task, q.cap)
              missing == missingParams(q.cap, fp)
              q1 == [q EXCEPT !.extracted = fp]
              q2 == [q1 EXCEPT !.finalParams = applyDefaults(q.cap, fp)]
          IN IF missing # {}
             THEN respond(q1, [Response(400, "missing_params", q.cap, 0, 0)
                                 EXCEPT !.missing = missing])
             ELSE IF q.matchSource = "discovered"
             THEN callDiscoveredBackend(q2, t)
             ELSE IF breakerOpen
             THEN circuitOpen(q2)
             ELSE fire(q2, t)

\* The continuation the gate calls: /do's dispatch, or the start of
\* executePlan (orchestrator.js 271-273).
Dispatch(r, E) ==
  /\ running = r
  /\ req[r].pc = "paid"
  /\ LET chain == req[r].endpoint = "chain"
         capId == IF chain THEN req[r].plan[1] ELSE req[r].cap
     IN \E explicitParams \in E.params,
           breakerOpen \in fireAnswers(E, breakers, capId, now) :
          LET q == IF chain
                   THEN startStep([req[r] EXCEPT !.totalStart = now], 1,
                                  breakerOpen, now)
                   ELSE doDispatch(req[r], explicitParams, breakerOpen, now)
              \* the continuation reached fire()
              called == /\ q.matchSource # "discovered"
                        /\ \/ q.pc = "calling"
                           \/ /\ breakerOpen /\ q.pc = "done"
                              /\ q.resp.error \notin {"missing_params",
                                                       "total_timeout"}
          IN /\ chain => explicitParams = CHOOSE e \in E.params : TRUE
             /\ req' = [req EXCEPT ![r] =
                          IF called THEN noteFire(E, q, breakers, capId, now)
                          ELSE q]
             /\ breakers' = IF called THEN fired(E, breakers, capId, now)
                            ELSE breakers
  /\ running' = 0
  /\ UNCHANGED <<limiterVars, bazaarVars, cacheVars, stepVars>>
  /\ UNCHANGED <<now, received, TEST_BYPASS_KEY, paymentNonces, activeDiscovered,
                 usageLog, stats, firstPresented>>

\* the request after logUsage: how many records it appended, and where
logged(q, before, after) ==
  [q EXCEPT !.logged = @ + (Len(after) - Len(before)), !.logIndex = Len(after)]

\* app.post("/do"), lines 654-727: what the continuation does with the
\* call's outcome: <<the request afterwards, the ledger afterwards>>.
\* outcome is "ok", an error result's reply, or "throws" (which
\* callDiscoveredBackend turns into an error result).
doOutcome(q, outcome, log) ==
  LET c == Cap(q.cap)
  IN IF outcome = "throws" /\ q.matchSource # "discovered"
     THEN LET l == logUsage(log, failureWallet(q), q.cap, c.cost, FALSE)
          IN <<respond(logged(q, log, l),
                       Response(502, "backend_unavailable", q.cap, 0, 0)), l>>
     ELSE IF outcome # "ok"
     THEN LET body == Response(replyStatus(outcome),
                               replyError(q.matchSource, outcome),
                               q.cap, 0, 0)
          IN <<respond(q, IF q.matchSource = "discovered" THEN body
                          ELSE withRetries(body, q.retries)), log>>
     ELSE LET l == logUsage(log, successWallet(q), q.cap, c.cost, TRUE)
          IN <<respond(logged(q, log, l),
                       withRetries(Response(200, None, q.cap, c.cost, 0),
                                   q.retries)), l>>

\* a step that leaves no entry in the cost breakdown
stepDoneUncosted(q) ==
  [q EXCEPT !.stepResults =
              Append(@, [result |-> q.cap, durationMs |-> q.callMs]),
            !.chainMs = @ + q.callMs]

\* executePlan, lines 195-209: the step's call returned a result after
\* durationMs; both arrays get an entry
stepDone(q) ==
  [q EXCEPT !.stepResults =
              Append(@, [result |-> q.cap, durationMs |-> q.callMs]),
            !.costBreakdown =
              Append(@, [step |-> q.step - 1, capabilityId |-> q.cap,
                         cost |-> Cap(q.cap).cost, durationMs |-> q.callMs]),
            !.chainMs = @ + q.callMs]

RECURSIVE sumCosts(_)
\* costBreakdown.reduce((sum, s) => sum + parseFloat(s.cost.replace("$", "")), 0)
sumCosts(breakdown) ==
  IF breakdown = <<>> THEN 0
  ELSE Head(breakdown).cost + sumCosts(Tail(breakdown))

\* executePlan, lines 222-232: the envelope of a chain whose steps all
\* returned; cost is its totalCost
chainSuccess(q) ==
  respond(q, withArrays(Response(200, None, None,
                                 toFixed3(sumCosts(q.costBreakdown)), 0), q))

\* a chain that takes a failed step for done and goes on
chainOutcomeGoesOn(q, outcome, breakerOpen, t) ==
  IF q.step < Len(q.plan)
  THEN startStep(stepDone(q), q.step + 1, breakerOpen, t)
  ELSE chainSuccess(stepDone(q))

\* executePlan, lines 192-232, and the response of /do/chain (lines 275-284):
\* what the chain does with a step's outcome
chainOutcome(q, outcome, breakerOpen, t) ==
  IF outcome = "throws"
  THEN stepFailure([q EXCEPT !.chainMs = @ + q.callMs], "step_error")
  ELSE IF outcome # "ok"
  THEN stepFailure([q EXCEPT !.chainMs = @ + q.callMs], "step_failed")
  ELSE IF q.step < Len(q.plan)
  THEN startStep(stepDone(q), q.step + 1, breakerOpen, t)
  ELSE chainSuccess(stepDone(q))

\* the call of a chain's step ended with this outcome
stepEnded(q, outcome) ==
  IF q.endpoint = "chain"
  THEN [q EXCEPT !.stepOutcomes = Append(@, outcome)]
  ELSE q

\* the handler goes on with the outcome of the call it awaited
callOutcome(q, outcome, log, breakerOpen, t) ==
  IF q.endpoint = "chain"
  THEN <<chainOutcome(q, outcome, breakerOpen, t), log>>
  ELSE doOutcome(q, outcome, log)

\* The backend answers an attempt after d milliseconds, within the breaker's
\* timeout: the wrapped call's loop (reliability.js 42-91) goes to sleep
\* before a retry or ends, and then the handler goes on.  A discovered
\* service is called once, outside the wrapper.
BackendReply(r, E) ==
  /\ running = 0
  /\ req[r].pc = "calling"
  /\ (now - req[r].startedAt) * TickMs <= BREAKER_TIMEOUT_MS
  /\ \E reply \in E.backendReplies, wallet \in E.wallets,
        breakerOpen \in BOOLEAN, d \in E.durations :
       LET q == [req[r] EXCEPT !.callMs = @ + d, !.lastReply = reply]
           native == q.matchSource # "discovered"
           last == q.attempt >= Len(RETRY_DELAYS)
           b1 == IF native THEN ended(E, breakers, q.cap, reply = "ok", now)
                 ELSE breakers
           more == q.endpoint = "chain" /\ reply = "ok" /\ q.step < Len(q.plan)
       IN /\ q.callMs <= BREAKER_TIMEOUT_MS
          /\ IF native /\ (isRetryable(reply) \/ reply = "throws") /\ ~last
             THEN \* retries = attempt + 1; await sleep(RETRY_DELAYS[attempt])
                  /\ wallet = None /\ ~breakerOpen
                  /\ req' = [req EXCEPT ![r] =
                               [q EXCEPT !.pc = "sleeping",
                                         !.retries = q.attempt + 1]]
                  /\ UNCHANGED <<usageLog, stats, breakers>>
             ELSE LET out == callOutcome(stepEnded([q EXCEPT !.wallet = wallet],
                                                   reply),
                                         reply, usageLog, breakerOpen, now)
                  IN /\ (wallet # None => out[2] # usageLog)
                     /\ IF more
                        THEN breakerOpen \in
                               fireAnswers(E, b1, q.plan[q.step + 1], now)
                        ELSE ~breakerOpen
                     /\ breakers' = IF out[1].step # q.step
                                    THEN fired(E, b1, out[1].cap, now)
                                    ELSE b1
                     /\ stats' = IF ~native THEN stats
                                 ELSE IF reply = "ok"
                                 THEN recordSuccess(stats, q.cap)
                                 ELSE recordFailure(stats, q.cap)
                     /\ usageLog' = out[2]
                     /\ req' = [req EXCEPT ![r] = out[1]]
  /\ UNCHANGED <<limiterVars, bazaarVars, cacheVars, stepVars>>
  /\ UNCHANGED <<now, received, running, TEST_BYPASS_KEY, paymentNonces,
                 activeDiscovered, firstPresented>>

\* sleep(RETRY_DELAYS[attempt]) is over, within the breaker's timeout: the
\* loop's next attempt starts (reliability.js 49-50, 79-80)
RetryWake(r, E) ==
  /\ running = 0
  /\ req[r].pc = "sleeping"
  /\ (now - req[r].startedAt) * TickMs <= BREAKER_TIMEOUT_MS
  /\ LET q == req[r]
         delay == retryDelay(q.attempt)
     IN /\ q.callMs + delay <= BREAKER_TIMEOUT_MS
        /\ req' = [req EXCEPT ![r] =
                     [q EXCEPT !.pc = "calling", !.attempt = @ + 1,
                               !.callMs = @ + delay,
                               !.attemptStartMs = q.callMs + delay,
                               !.slept = delay,
                               !.backendCalls = @ + 1]]
  /\ UNCHANGED <<limiterVars, bazaarVars, cacheVars, stepVars>>
  /\ UNCHANGED <<now, received, running, TEST_BYPASS_KEY, paymentNonces,
                 activeDiscovered, usageLog, stats, breakers, firstPresented>>

\* the wrapped call can still be pending BREAKER_TIMEOUT_MS after fire():
\* the running attempt answers late enough, or the sleep ends late enough
canOutlast(q, E) ==
  IF q.pc = "sleeping"
  THEN q.callMs + retryDelay(q.attempt) > BREAKER_TIMEOUT_MS
  ELSE \E d \in E.durations : q.callMs + d > BREAKER_TIMEOUT_MS

\* The call has lasted longer than opossum allows (reliability.js 105): the
\* breaker rejects it with a timeout error, which the wrapper rethrows.  (The
\* attempt loop goes on behind the rejected call; what it does to the
\* counters later is not followed.)  A discovered service's fetch is aborted
\* instead, with the same effect as a transport error.
BreakerTimeout(r, E) ==
  /\ running = 0
  /\ req[r].pc \in {"calling", "sleeping"}
  /\ \/ (now - req[r].startedAt) * TickMs > BREAKER_TIMEOUT_MS
     \/ canOutlast(req[r], E)
  /\ \E wallet \in E.wallets :
       LET q == stepEnded([req[r] EXCEPT !.wallet = wallet, !.timedOut = TRUE,
                                         !.callMs = BREAKER_TIMEOUT_MS],
                          "throws")
           out == callOutcome(q, "throws", usageLog, FALSE, now)
       IN /\ (wallet # None => out[2] # usageLog)
          /\ usageLog' = out[2]
          /\ req' = [req EXCEPT ![r] = out[1]]
          /\ breakers' = IF q.matchSource # "discovered"
                         THEN ended(E, breakers, q.cap, FALSE, now)
                         ELSE breakers
          /\ behind' = IF q.matchSource # "discovered"
                       THEN [behind EXCEPT ![q.cap] = @ + 1]
                       ELSE behind
  /\ UNCHANGED <<limiterVars, bazaarVars, cacheVars, build>>
  /\ UNCHANGED <<now, received, running, TEST_BYPASS_KEY, paymentNonces,
                 activeDiscovered, stats, firstPresented>>

\* An attempt loop that the breaker's timeout left behind comes to its end
\* (reliability.js 55-59, 69-71, 85-87, 94-96): it counts itself once, and
\* nobody is waiting for what it returns or throws.
LoopEnds(c, E) ==
  /\ running = 0
  /\ behind[c] > 0
  /\ \E reply \in E.backendReplies :
       stats' = IF reply = "ok" THEN recordSuccess(stats, c)
                ELSE recordFailure(stats, c)
  /\ behind' = [behind EXCEPT ![c] = @ - 1]
  /\ UNCHANGED <<limiterVars, bazaarVars, cacheVars, build>>
  /\ UNCHANGED <<now, received, running, TEST_BYPASS_KEY, req, paymentNonces,
                 activeDiscovered, usageLog, breakers, firstPresented>>

\* the connection closes: the slot is free again
Reset(r) ==
  /\ running = 0
  /\ req[r].pc \in {"done", "hung"}
  /\ req' = [req EXCEPT ![r] = IdleReq]
  /\ UNCHANGED <<limiterVars, bazaarVars, cacheVars, stepVars>>
  /\ UNCHANGED <<now, received, running, TEST_BYPASS_KEY, paymentNonces,
                 activeDiscovered, usageLog, stats, breakers, firstPresented>>

\* time passes
Tick ==
  /\ running = 0
  /\ now < MaxTicks
  /\ now' = now + 1
  /\ UNCHANGED <<limiterVars, bazaarVars, cacheVars, stepVars>>
  /\ UNCHANGED <<received, running, TEST_BYPASS_KEY, req, paymentNonces,
                 activeDiscovered, usageLog, stats, breakers, firstPresented>>

\* One request after the other, with every kind of request and reply.
Next ==
  \/ DoReceive(1, EnvFull)
  \/ DiscoveryReply(1, EnvFull)
  \/ ChainReceive(1, EnvFull)
  \/ PlannerReply(1, EnvFull)
  \/ PaymentCheck(1, EnvFull)
  \/ FacilitatorReply(1, EnvFull)
  \/ Dispatch(1, EnvFull)
  \/ BackendReply(1, EnvFull)
  \/ RetryWake(1, EnvFull)
  \/ Reset(1)

Spec == Init /\ [][Next]_vars

\* Two requests in flight together, over time.
NextRace ==
  \/ \E r \in Slots : DoReceive(r, EnvRace)
  \/ \E r \in Slots : ChainReceive(r, EnvRace)
  \/ \E r \in Slots : PlannerReply(r, EnvRace)
  \/ \E r \in Slots : PaymentCheck(r, EnvRace)
  \/ \E r \in Slots : FacilitatorReply(r, EnvRace)
  \/ \E r \in Slots : Dispatch(r, EnvRace)
  \/ \E r \in Slots : BackendReply(r, EnvRace)
  \/ \E r \in Slots : BreakerTimeout(r, EnvRace)
  \/ \E c \in CapIds : LoopEnds(c, EnvRace)
  \/ Tick

InitRace == Init /\ TEST_BYPASS_KEY = ""

SpecRace == InitRace /\ [][NextRace]_vars

\* One wrapped call at a time, followed attempt by attempt in milliseconds.
NextCall ==
  \/ DoReceive(1, EnvCall)
  \/ PaymentCheck(1, EnvCall)
  \/ Dispatch(1, EnvCall)
  \/ BackendReply(1, EnvCall)
  \/ RetryWake(1, EnvCall)
  \/ BreakerTimeout(1, EnvCall)
  \/ \E c \in CapIds : LoopEnds(c, EnvCall)
  \/ Reset(1)

SpecCall == Init /\ [][NextCall]_vars

\* The calls of one capability, one after the other, with its breaker
\* followed over time.
NextBreaker ==
  \/ DoReceive(1, EnvBreaker)
  \/ PaymentCheck(1, EnvBreaker)
  \/ Dispatch(1, EnvBreaker)
  \/ BackendReply(1, EnvBreaker)
  \/ Reset(1)
  \/ Tick

InitBreaker == Init /\ TEST_BYPASS_KEY = "k1"

SpecBreaker == InitBreaker /\ [][NextBreaker]_vars

\* the callers followed by SpecProbe send a call while another is in flight
\* only once a breaker has opened
overlaps(r) == r = 1 \/ \E c \in CapIds : breakers[c].openedAt # Absent

\* Fewer calls of one capability, two of them in flight together once the
\* breaker has opened.
NextProbe ==
  \/ \E r \in Slots : overlaps(r) /\ DoReceive(r, EnvProbe)
  \/ \E r \in Slots : PaymentCheck(r, EnvProbe)
  \/ \E r \in Slots : Dispatch(r, EnvProbe)
  \/ \E r \in Slots : BackendReply(r, EnvProbe)
  \/ \E r \in Slots : Reset(r)
  \/ Tick

SpecProbe == InitBreaker /\ [][NextProbe]_vars

\* The requests that follow the discovery of a service.
NextLookup ==
  \/ DoReceive(1, EnvLookup)
  \/ DiscoveryReply(1, EnvLookup)
  \/ PaymentCheck(1, EnvLookup)
  \/ Dispatch(1, EnvLookup)
  \/ BackendReply(1, EnvLookup)
  \/ Reset(1)

SpecLookup == InitBreaker /\ [][NextLookup]_vars

\* The test peer's /do requests for the native capabilities, by task, by ID
\* or by both, with and without a params object.
EnvLive ==
  [requests |-> MaxRequests,
   tasks |-> {None, "screenshot https://example.com", "capture the page"},
   capabilities |-> {None, "screenshot", "ip-geo"},
   bazaar |-> {"none"},
   budgets |-> {NoBudget}, testKeys |-> {"k1"},
   origins |-> {<<None, "127.0.0.1">>},
   paymentHeaders |-> {<<None, None>>}, sweeps |-> {FALSE},
   params |-> ExplicitParams,
   follow |-> FALSE, breakerOpen |-> BOOLEAN,
   backendReplies |-> BackendReplies, durations |-> {0},
   wallets |-> {None}]

NextLive ==
  \/ DoReceive(1, EnvLive)
  \/ PaymentCheck(1, EnvLive)
  \/ Dispatch(1, EnvLive)
  \/ BackendReply(1, EnvLive)
  \/ RetryWake(1, EnvLive)
  \/ Reset(1)

\* The event loop runs every callback that is ready: the gate and the
\* continuation it calls run once the request is in, the backend's answer
\* (or the breaker's timeout in its place) and the retry timer arrive.
\* Nothing makes a client send a request or close its connection.
FairLive ==
  /\ WF_vars(PaymentCheck(1, EnvLive))
  /\ WF_vars(Dispatch(1, EnvLive))
  /\ WF_vars(BackendReply(1, EnvLive))
  /\ WF_vars(RetryWake(1, EnvLive))

SpecLive == InitBreaker /\ [][NextLive]_vars /\ FairLive

\* Requests for a discovered service, two of them in flight together.
NextActivate ==
  \/ \E r \in Slots : DoReceive(r, EnvActivate)
  \/ \E r \in Slots : DiscoveryReply(r, EnvActivate)
  \/ \E r \in Slots : PaymentCheck(r, EnvActivate)
  \/ \E r \in Slots : Dispatch(r, EnvActivate)
  \/ \E r \in Slots : BackendReply(r, EnvActivate)
  \/ \E r \in Slots : Reset(r)

SpecActivate == InitBreaker /\ [][NextActivate]_vars

\* Searches of the bazaar over time, two of them in flight together.
NextCache ==
  \/ \E r \in Slots : DoReceive(r, EnvCache)
  \/ \E r \in Slots : DiscoveryReply(r, EnvCache)
  \/ \E r \in Slots : PaymentCheck(r, EnvCache)
  \/ \E r \in Slots : Reset(r)
  \/ Tick

SpecCache == InitRace /\ [][NextCache]_vars

\* One chain at a time, its steps followed in milliseconds.
NextChain ==
  \/ ChainReceive(1, EnvChain)
  \/ PlannerReply(1, EnvChain)
  \/ PaymentCheck(1, EnvChain)
  \/ Dispatch(1, EnvChain)
  \/ BackendReply(1, EnvChain)
  \/ RetryWake(1, EnvChain)
  \/ BreakerTimeout(1, EnvChain)
  \/ \E c \in CapIds : LoopEnds(c, EnvChain)
  \/ Reset(1)

SpecChain == InitBreaker /\ [][NextChain]_vars

(* ---------------------------- usage queries --------------------------- *)

\* wallet addresses as callers write them: two spellings of one address and
\* another address
UsageWallets == {"0xab", "0xAB", "0xcd"}

UsageRoutes == {"/usage", "/usage/capabilities", "/usage/timeline"}

\* the usage_log tables a query may find: the rows earlier calls left
Ledgers ==
  UNION {[1..n -> [wallet : UsageWallets \cup {"anonymous"},
                   capability : {"ip-geo"}, cost : {5000},
                   success : {TRUE}]] : n \in 0..MaxLedger}

\* the (x-wallet-address, ?wallet=) pairs usage queries arrive with
EnvUsage ==
  [requests |-> MaxRequests, routes |-> UsageRoutes,
   testKeys |-> {None, "k1"},
   origins |-> {<<None, "127.0.0.1">>, <<None, "203.0.113.9">>},
   headerWallets |-> UsageWallets \cup {None},
   queryWallets |-> UsageWallets \cup {None, ""}]

\* the answer of usageAuth: status 0 stands for next(), wallet is
\* req.query.wallet afterwards
AuthAnswer(status, wallet) == [status |-> status, wallet |-> wallet]

\* a usageAuth that lets the query parameter through
usageAuthUnchecked(key, testKey, ip, headerWallet, queryWallet) ==
  IF headerWallet \in {None, ""} THEN AuthAnswer(401, queryWallet)
  ELSE AuthAnswer(0, queryWallet)

\* a usageAuth that compares the two wallets letter for letter
usageAuthCaseSensitive(key, testKey, ip, headerWallet, queryWallet) ==
  IF key # "" /\ testKey = key /\ isInternal(ip) THEN AuthAnswer(0, queryWallet)
  ELSE IF headerWallet \in {None, ""} THEN AuthAnswer(401, queryWallet)
  ELSE IF queryWallet \notin {None, ""} /\ queryWallet # headerWallet
       THEN AuthAnswer(403, queryWallet)
  ELSE AuthAnswer(0, headerWallet)

\* usageAuth(req, res, next)
usageAuth(key, testKey, ip, headerWallet, queryWallet) ==
  IF key # "" /\ testKey = key /\ isInternal(ip) THEN AuthAnswer(0, queryWallet)
  ELSE IF headerWallet \in {None, ""} THEN AuthAnswer(401, queryWallet)
  ELSE IF /\ queryWallet \notin {None, ""}
          /\ toLowerCase(queryWallet) # toLowerCase(headerWallet)
       THEN AuthAnswer(403, queryWallet)
  ELSE AuthAnswer(0, headerWallet)

\* getUsage, getUsageByCapability, getSpendOverTime: the rows the
\* aggregation runs over, WHERE wallet_address = ? (from and to only narrow
\* them)
usageRows(log, wallet) == {i \in 1..Len(log) : log[i].wallet = wallet}

\* app.get("/usage"), app.get("/usage/capabilities"),
\* app.get("/usage/timeline"): usageAuth, then the route handler
usageHandler(q, auth, headerWallet, log) ==
  LET wallet == IF auth.wallet \notin {None, ""} THEN auth.wallet
                ELSE headerWallet
  IN IF auth.status = 401
     THEN respond(q, Response(401, "Authentication required", None, 0, 0))
     ELSE IF auth.status = 403
     THEN respond(q, Response(403, "Can only query your own wallet usage",
                              None, 0, 0))
     ELSE IF wallet \in {None, ""}
     THEN respond(q, Response(400, "wallet required", None, 0, 0))
     ELSE respond([q EXCEPT !.rows = usageRows(log, wallet)],
                  Response(200, None, None, 0, 0))

\* GET /usage, /usage/capabilities or /usage/timeline arrives and is answered
UsageQuery(r, E) ==
  /\ running = 0
  /\ req[r].pc = "idle"
  /\ \A s \in Slots : s < r => req[s].pc # "idle"
  /\ received < E.requests
  /\ \E route \in E.routes, testKey \in E.testKeys, origin \in E.origins,
        headerWallet \in E.headerWallets, queryWallet \in E.queryWallets :
       LET ip == clientIp(origin[1], origin[2])
           q0 == [IdleReq EXCEPT !.endpoint = route, !.peerKey = testKey,
                                 !.peerIp = ip, !.wallet = headerWallet,
                                 !.queryWallet = queryWallet]
           auth == usageAuth(TEST_BYPASS_KEY, testKey, ip, headerWallet,
                             queryWallet)
       IN req' = [req EXCEPT ![r] = usageHandler(q0, auth, headerWallet,
                                                 usageLog)]
  /\ received' = received + 1
  /\ UNCHANGED <<limiterVars, bazaarVars, cacheVars, stepVars>>
  /\ UNCHANGED <<now, running, TEST_BYPASS_KEY, paymentNonces, activeDiscovered,
                 usageLog, stats, breakers, firstPresented>>

\* Usage queries over a ledger that earlier calls filled.
NextUsage ==
  \/ UsageQuery(1, EnvUsage)
  \/ Reset(1)

InitUsage ==
  /\ now = 0
  /\ received = 0
  /\ running = 0
  /\ TEST_BYPASS_KEY \in {"", "k1"}
  /\ req = [r \in Slots |-> IdleReq]
  /\ paymentNonces = [h \in Hashes |-> Absent]
  /\ activeDiscovered = NoActive
  /\ usageLog \in Ledgers
  /\ stats = [c \in CapIds |-> NoStats]
  /\ behind = [c \in CapIds |-> 0]
  /\ breakers = [c \in CapIds |-> NoBreaker]
  /\ firstPresented = [p \in Proofs |-> Absent]
  /\ NoArrivals
  /\ NoLookups
  /\ build = NoBuild
  /\ NoService

SpecUsage == InitUsage /\ [][NextUsage]_vars

(* ------------------------- step parameters --------------------------- *)
\* executePlan, lines 171-185, for one parameter of one step.

\* JSON values: undefined, null, strings and numbers, objects
Undefined == [k |-> "undefined"]
Null == [k |-> "null"]
Str(x) == [k |-> "string", v |-> x]
Obj(f) == [k |-> "object", f |-> f]

\* what a backend may return as data
StepData == {Obj([content |-> Str("page")]), Str("text"), Null}

\* stepResults.push({ result: result.data, durationMs }), line 208
stepResult(data) == Obj([result |-> data, durationMs |-> Str("12")])

\* the results of the steps before the step: stepResults when its
\* parameters are built
EarlierResults ==
  UNION {[1..n -> {stepResult(d) : d \in StepData}] : n \in 0..MaxEarlier}

\* inputMapping paths: matches tells whether the string has the form
\* steps[N].rest, idx is N and rest the keys between the dots
NoPath == [given |-> FALSE, matches |-> FALSE, idx |-> 0, rest |-> <<>>]

Paths ==
  {[given |-> TRUE, matches |-> FALSE, idx |-> 0, rest |-> <<>>]}
  \cup {[given |-> TRUE, matches |-> TRUE, idx |-> n, rest |-> ks] :
          n \in 0..MaxEarlier,
          ks \in {<<"result">>, <<"result", "content">>,
                  <<"result", "title">>, <<"result", "content", "length">>,
                  <<"durationMs">>}}

\* the steps followed: the literal value of the parameter in step.params,
\* its path in step.inputMapping, the default its schema names
Steps ==
  [done : {FALSE}, given : {TRUE},
   stepResults : EarlierResults,
   literal : {Undefined, Str("typed")},
   path : Paths \cup {NoPath},
   default : {Undefined, Str("preset")}]

\* obj[key]
property(obj, key) == IF key \in DOMAIN obj.f THEN obj.f[key] ELSE Undefined

RECURSIVE descend(_, _)
\* resolvePath, lines 22-26: the loop over rest.split(".")
descend(obj, keys) ==
  IF keys = <<>> THEN obj
  ELSE IF obj.k # "object" THEN Undefined
  ELSE descend(property(obj, Head(keys)), Tail(keys))

\* resolvePath(path, stepResults)
resolvePath(path, stepResults) ==
  IF ~path.matches THEN Undefined
  ELSE IF path.idx + 1 > Len(stepResults) THEN Undefined
  ELSE descend(stepResults[path.idx + 1], path.rest)

\* an overlay that assigns whatever the path gives
overlayAlways(literal, path, stepResults) ==
  IF path.given THEN resolvePath(path, stepResults) ELSE literal

\* lines 172-178: the literal value, overlaid by the mapped one when the
\* path gives a value
overlay(literal, path, stepResults) ==
  IF path.given /\ resolvePath(path, stepResults) # Undefined
  THEN resolvePath(path, stepResults)
  ELSE literal

\* lines 180-185: the default fills in a parameter that is still undefined
withDefault(val, default) ==
  IF val = Undefined /\ default # Undefined THEN default ELSE val

\* executePlan builds the parameter of the step.
BuildParams ==
  /\ build.given /\ ~build.done
  /\ build' = [done |-> TRUE, given |-> TRUE, step |-> build,
               param |-> withDefault(overlay(build.literal, build.path,
                                             build.stepResults),
                                     build.default)]
  /\ UNCHANGED <<now, received, running, TEST_BYPASS_KEY, req, paymentNonces,
                 activeDiscovered, usageLog, stats, breakers, firstPresented,
                 limiterVars, bazaarVars, cacheVars, behind>>

NextParams == BuildParams

(* ---------------------------- rate limiter ---------------------------- *)
\* The middleware at server.js 54-81, which every request passes before its
\* route.  (The other specifications follow fewer than maxRequests requests
\* of an address, which it lets through unchanged.)

window == 60000
maxRequests == 60

RatePaths == {"/health", "/status", "/do"}

\* the (x-forwarded-for, socket address) pairs of the requests followed: one
\* address behind the proxy, which sends the bursts, and the proxy's own
BurstIp == "198.51.100.7"
RateOrigins == {<<BurstIp, "203.0.113.9">>, <<None, "203.0.113.9">>}

\* req.path === "/health" || req.path === "/status"
exempt(path) == path = "/health" \/ path = "/status"

\* the address's bucket at time t: a new one when it has none or when the
\* window of the one it has is over
bucketAt(limits, ip, t) ==
  IF \/ limits[ip].windowStart = Absent
     \/ (t - limits[ip].windowStart) * TickMs > window
  THEN [windowStart |-> t, count |-> 0]
  ELSE limits[ip]

\* a limiter that refuses the request that reaches the limit
overLimitAtLimit(count) == count >= maxRequests

\* bucket.count > maxRequests
overLimit(count) == count > maxRequests

\* "Clean old entries": the buckets two windows old go
sweepBuckets(limits, t) ==
  [ip \in ClientIps |->
     IF /\ limits[ip].windowStart # Absent
        /\ (t - limits[ip].windowStart) * TickMs > window * 2
     THEN NoBucket ELSE limits[ip]]

\* the middleware for a request of path `path` from address ip at time t:
\* whether it calls next() and the Map afterwards; sweep is
\* Math.random() < 0.01
rateLimit(limits, path, ip, t, sweep) ==
  IF exempt(path)
  THEN [next |-> TRUE, limits |-> limits]
  ELSE LET b == [bucketAt(limits, ip, t) EXCEPT !.count = @ + 1]
           counted == [limits EXCEPT ![ip] = b]
       IN IF overLimit(b.count)
          THEN [next |-> FALSE, limits |-> counted]
          ELSE [next |-> TRUE,
                limits |-> IF sweep THEN sweepBuckets(counted, t) ELSE counted]

\* the address's tally at time t
tallyAt(tally, ip, t) ==
  IF tally[ip].at = t THEN tally[ip] ELSE [NoTally EXCEPT !.at = t]

\* A request arrives and passes the rate limiter.
Arrive ==
  /\ running = 0
  /\ \E path \in RatePaths, origin \in RateOrigins, sweep \in BOOLEAN :
       LET ip == clientIp(origin[1], origin[2])
           out == rateLimit(gatewayRateLimits, path, ip, now, sweep)
           y == tallyAt(arrivals.tally, ip, now)
       IN /\ exempt(path) \/
               y.asked < (IF ip = BurstIp THEN MaxBurst ELSE MaxOthers)
          /\ gatewayRateLimits' = out.limits
          /\ arrivals' =
               [tally |-> IF exempt(path) THEN arrivals.tally
                          ELSE [arrivals.tally EXCEPT ![ip] =
                                  [y EXCEPT !.asked = @ + 1,
                                            !.admitted =
                                               IF out.next THEN @ + 1 ELSE @]],
                last |-> [ip |-> ip, path |-> path,
                          status |-> IF out.next THEN 0 ELSE 429]]
  /\ UNCHANGED <<now, received, running, TEST_BYPASS_KEY, req, paymentNonces,
                 activeDiscovered, usageLog, stats, breakers, firstPresented,
                 bazaarVars, cacheVars, stepVars>>

NextLimiter == Arrive \/ Tick

SpecLimiter == InitRace /\ [][NextLimiter]_vars

(* ----------------------------- discovery ------------------------------ *)
\* normalizeResults and callDiscoveredBackend, applied to one listing of the
\* bazaar.  Prices are in micro-dollars.

\* discovery.js: the dearest provider price that is kept, and the markup
MAX_PROVIDER_COST == 250000
DEFAULT_MARKUP == 1

\* The cost of a listing (s.cost || s.price || s.maxAmountRequired): absent,
\* a number or a string.  With raw FALSE the value is v millionths, written
\* in dollars; with raw TRUE it is the number v, above 100, which parseCost
\* reads as micro-units.
Costs ==
  {NoCost}
  \cup {[kind |-> k, raw |-> FALSE, v |-> n * 200] :
          k \in {"number", "string"}, n \in 0..MaxPrices}
  \cup {[kind |-> "number", raw |-> TRUE, v |-> u] :
          u \in {101, 4000, 250000, 250001}}

Urls ==
  {Url(h, FALSE) : h \in {"127.0.0.1", "localhost", "10.1.2.3", "172.16.0.1",
                          "172.31.255.1", "172.32.0.1", "192.168.1.1",
                          "169.254.169.254", "100.64.0.1", "100.127.0.1",
                          "100.128.0.1", "93.184.216.34", "0.0.0.0",
                          "metadata.google.internal", "api.example.com"}}
  \cup {Url(h, TRUE) : h \in {"::1", "fc00::1", "fd12:3456::1", "fe80::1",
                              "febf::1", "2001:db8::1"}}
  \cup {[given |-> TRUE, valid |-> FALSE, v6 |-> FALSE, host |-> ""]}

\* the listings followed: every cost with a public endpoint, every endpoint
\* with one cost
Services ==
  {[url |-> PublicUrl, cost |-> c] : c \in Costs}
  \cup {[url |-> u, cost |-> [kind |-> "number", raw |-> FALSE, v |-> 10000]] :
          u \in Urls \cup {NoUrl}}

\* parseCost(costStr): nothing and the number 0 give $0.01; a value above 100
\* is taken for micro-units and divided by 1_000_000
parseCost(c) ==
  IF c.kind = "absent" \/ (c.kind = "number" /\ c.v = 0) THEN 10000
  ELSE IF c.raw THEN c.v
  ELSE c.v

\* Math.max
mathMax(a, b) == IF a >= b THEN a ELSE b

\* The doubles of the arithmetic at lines 80-81 are the decimal values for
\* every price followed but one: in binary64 0.004 + 0.005 is
\* 0.009000000000000001 and its product with 1000 is 9.000000000000002.
aboveDecimal(providerCost) == providerCost = 4000

\* Math.ceil(pylonCost * 1000) / 1000, for a double that is the decimal value
\* or just above it
ceilThousandth(pylonCost, above) ==
  IF above /\ pylonCost % 1000 = 0 THEN pylonCost + 1000
  ELSE ((pylonCost + 999) \div 1000) * 1000

\* normalizeResults, for one listing: the filter, then the prices
normalizeResults(s) ==
  LET providerCost == parseCost(s.cost)
      pylonCost == mathMax(providerCost * (1 + DEFAULT_MARKUP),
                           providerCost + 5000)
      roundedPylonCost == ceilThousandth(pylonCost, aboveDecimal(providerCost))
  IN IF ~s.url.given \/ providerCost > MAX_PROVIDER_COST
     THEN [NotNormalized EXCEPT !.stage = "dropped"]
     ELSE [stage |-> "kept", providerUrl |-> s.url,
           providerCost |-> toFixed3(providerCost),
           pylonCost |-> toFixed3(roundedPylonCost),
           pylonFee |-> toFixed3(roundedPylonCost - providerCost)]

\* searchBazaar got the listing: normalizeResults runs over it
Normalize ==
  /\ normalized.stage = "none"
  /\ service # NoListing
  /\ normalized' = normalizeResults(service)
  /\ UNCHANGED <<service, outbound>>
  /\ UNCHANGED <<now, received, running, TEST_BYPASS_KEY, req, paymentNonces,
                 activeDiscovered, usageLog, stats, breakers, firstPresented,
                 limiterVars, cacheVars, stepVars>>

\* callDiscoveredBackend, lines 192-208, for the capability activated from
\* the listing (its endpoint is the listing's providerUrl): the SSRF check,
\* then the request
CallDiscovered ==
  /\ normalized.stage = "kept"
  /\ outbound = None
  /\ outbound' = IF isBlockedEndpoint(normalized.providerUrl)
                 THEN "blocked_endpoint" ELSE "fetch"
  /\ UNCHANGED <<service, normalized>>
  /\ UNCHANGED <<now, received, running, TEST_BYPASS_KEY, req, paymentNonces,
                 activeDiscovered, usageLog, stats, breakers, firstPresented,
                 limiterVars, cacheVars, stepVars>>

NextDiscovery == Normalize \/ CallDiscovered

InitDiscovery ==
  /\ now = 0
  /\ received = 0
  /\ running = 0
  /\ TEST_BYPASS_KEY = ""
  /\ req = [r \in Slots |-> IdleReq]
  /\ paymentNonces = [h \in Hashes |-> Absent]
  /\ activeDiscovered = NoActive
  /\ usageLog = <<>>
  /\ stats = [c \in CapIds |-> NoStats]
  /\ behind = [c \in CapIds |-> 0]
  /\ breakers = [c \in CapIds |-> NoBreaker]
  /\ firstPresented = [p \in Proofs |-> Absent]
  /\ NoArrivals
  /\ NoLookups
  /\ build = NoBuild
  /\ service \in Services
  /\ normalized = NotNormalized
  /\ outbound = None

SpecDiscovery == InitDiscovery /\ [][NextDiscovery]_vars

InitParams ==
  /\ now = 0
  /\ received = 0
  /\ running = 0
  /\ TEST_BYPASS_KEY = ""
  /\ req = [r \in Slots |-> IdleReq]
  /\ paymentNonces = [h \in Hashes |-> Absent]
  /\ activeDiscovered = NoActive
  /\ usageLog = <<>>
  /\ stats = [c \in CapIds |-> NoStats]
  /\ behind = [c \in CapIds |-> 0]
  /\ breakers = [c \in CapIds |-> NoBreaker]
  /\ firstPresented = [p \in Proofs |-> Absent]
  /\ NoArrivals
  /\ NoService
  /\ discoveryCache = [k \in SearchTerms |-> NoEntry]
  /\ bazaarLog = [k \in {searchKey(x) : x \in SearchTerms} |-> NoAnswer]
  /\ build \in Steps

SpecParams == InitParams /\ [][NextParams]_vars

(* ------------------------------ properties ---------------------------- *)

\* the errors the payment gate answers with
GateErrors ==
  {"payment_required", "payment_replay", "verification_failed",
   "verification_error"}

\* the gate was passed: the test bypass applied, or the facilitator answered
\* the verification with a 2xx status
gatePassed(q) == q.bypassed \/ q.verifyReply \in {"ok_valid", "ok_invalid"}

\* the appended record of a request that logged
recordOf(q) == usageLog[q.logIndex]

\* C1: among /do and /do/chain requests that do not use the test bypass, in
\* any interleaving, a presentation of a proof that was presented before, no
\* more than NONCE_TTL after its first presentation, is answered 402
\* "payment already used", is not verified and reaches no backend: the proof
\* passes the gate at most once in that window.
ProofPassesGateOnce ==
  \A r \in Slots :
    LET q == req[r]
    IN (/\ q.repeated
        /\ (q.presentedAt - firstPresented[q.paymentHeader]) * TickMs <= NONCE_TTL)
       => /\ q.pc = "done"
          /\ q.resp.status = 402
          /\ q.resp.error = "payment_replay"
          /\ ~q.paymentVerified
          /\ q.facilitatorCalls = 0
          /\ q.backendCalls = 0

\* a /do request and a /do/chain request present the same proof while the
\* first one's verification is still pending: the later one is refused
ConcurrentPresentationRefused ==
  \E r \in Slots, s \in Slots :
    /\ req[r].endpoint # req[s].endpoint
    /\ req[s].pc = "verifying"
    /\ req[r].paymentHeader = req[s].paymentHeader
    /\ req[r].repeated
    /\ req[r].resp.error = "payment_replay"

NegativeVerificationRefused ==
  \A r \in Slots :
    LET q == req[r]
    IN q.verifyReply \in {"non2xx", "ok_invalid"}
       => /\ q.pc = "done"
          /\ q.resp.status = 402
          /\ ~q.paymentVerified
          /\ q.backendCalls = 0

\* C4: when the verification failed (non-2xx reply) or the facilitator was
\* unreachable, the replay set holds for the proof what it held before the
\* request (so that the proof, presented again, is not refused as used).
FailedVerificationLeavesReplaySet ==
  \A r \in Slots :
    LET q == req[r]
    IN (q.pc = "done" /\ q.verifyReply \in {"non2xx", "throws"})
       => paymentNonces[paymentHash(q.paymentHeader)] = q.nonceAt

\* C5: a proof is refused as "payment already used" only if its identifier
\* was put into the replay set no more than NONCE_TTL before.
ReplayOnlyWithinTtl ==
  \A r \in Slots :
    LET q == req[r]
    IN q.replayed => (q.presentedAt - q.nonceAt) * TickMs <= NONCE_TTL

OverBudgetBeforeGate ==
  \A r \in Slots :
    LET q == req[r]
    IN (/\ q.endpoint = "do"
        /\ q.cap # None
        /\ q.budget.kind # "absent"
        /\ Cap(q.cap).cost > q.budget.micro)
       => /\ q.pc = "done"
          /\ q.resp.status = 400
          /\ q.resp.error = "over_budget"
          /\ q.facilitatorCalls = 0
          /\ q.presentedAt = Absent

\* C8: a /do request appends at most one usage record, and one answered
\* with success has appended exactly one, with the capability ID and the
\* cost of the response and the success flag set.
SuccessHasOneRecord ==
  \A r \in Slots :
    LET q == req[r]
    IN q.endpoint = "do"
       => /\ q.logged <= 1
          /\ (q.pc = "done" /\ q.resp.status = 200)
             => /\ q.logged = 1
                /\ q.logIndex \in 1..Len(usageLog)
                /\ recordOf(q).capability = q.resp.capId
                /\ recordOf(q).cost = q.resp.cost
                /\ recordOf(q).success

\* a paid /do request was answered with success
PaidRequestServed ==
  \E r \in Slots :
    /\ req[r].endpoint = "do"
    /\ req[r].paymentVerified
    /\ req[r].pc = "done"
    /\ req[r].resp.status = 200
    /\ req[r].logged = 1

\* C9: a /do request that passed the gate and was answered with an error
\* has appended exactly one usage record, with the success flag unset.
FailedDispatchLogged ==
  \A r \in Slots :
    LET q == req[r]
    IN (/\ q.endpoint = "do"
        /\ q.pc = "done"
        /\ (q.bypassed \/ q.paymentVerified)
        /\ q.resp.status # 200)
       => /\ q.logged = 1
          /\ ~recordOf(q).success

\* C10: the caller identifier in the usage record of a request that went
\* through the payment check, on the success and on the failure path, is
\* the x-wallet-address header if present, else the proof presented.
CallerIdentifierPreference ==
  \A r \in Slots :
    LET q == req[r]
    IN (q.logged > 0 /\ ~q.bypassed)
       => recordOf(q).wallet =
            (IF q.wallet # None THEN q.wallet
             ELSE IF q.paymentHeader # None THEN q.paymentHeader
             ELSE "anonymous")

\* a usage query that was answered
usageAnswered(q) == q.pc = "done" /\ q.endpoint \in UsageRoutes

\* the peer holds the test key and has an allow-listed address
testPeer(q) ==
  /\ TEST_BYPASS_KEY # ""
  /\ q.peerKey = TEST_BYPASS_KEY
  /\ isInternal(q.peerIp)

mismatchedQuery(q) ==
  /\ usageAnswered(q) /\ ~testPeer(q)
  /\ q.wallet \notin {None, ""}
  /\ q.queryWallet \notin {None, ""}
  /\ q.queryWallet # q.wallet

wrapped(q) ==
  /\ q.endpoint = "do" /\ q.matchSource # "discovered"
  /\ q.backendCalls > 0

\* C13: within one wrapped call, a backend answer with a status from 400 to
\* 499 (a backend 402 included) ends the attempt sequence: the call is over
\* with the attempts made so far, and the error result is returned with the
\* status and the retry count reached so far.
ClientErrorEndsAttempts ==
  \A r \in Slots :
    wrapped(req[r]) /\ req[r].lastReply \in {"s402", "s404"} =>
      /\ req[r].pc = "done"
      /\ req[r].backendCalls = req[r].attempt + 1
      /\ req[r].retries = req[r].attempt
      /\ req[r].resp.status = replyStatus(req[r].lastReply)
      /\ req[r].resp.retries = req[r].attempt

\* C13 witness: the second attempt of a call is answered 404
NotFoundAfterOneRetry ==
  \E r \in Slots :
    /\ wrapped(req[r]) /\ req[r].lastReply = "s404"
    /\ req[r].attempt = 1
    /\ req[r].resp.status = 404 /\ req[r].resp.retries = 1

\* C14: a wrapped call makes at most 4 attempts; the first starts at once;
\* attempt k+1 starts only after attempt k ended in a transport error or a
\* status of 500 or more and after a sleep of RETRY_DELAYS[k]; a success on
\* attempt k+1 is returned with retry count k; and a call whose 4th attempt
\* fails that way fails with retry count 3.
RetrySchedule ==
  \A r \in Slots :
    wrapped(req[r]) =>
      LET q == req[r]
      IN /\ q.attempt <= 3 /\ q.backendCalls <= 4
         /\ q.attempt = 0 => q.attemptStartMs = 0 /\ q.slept = 0
         /\ q.attempt >= 1 /\ q.pc = "calling" =>
              /\ q.lastReply \in {"s500", "throws"}
              /\ q.slept = RETRY_DELAYS[q.attempt]
              /\ q.retries = q.attempt
         /\ q.pc = "done" /\ q.resp.status = 200 =>
              q.lastReply = "ok" /\ q.resp.retries = q.attempt
         /\ q.pc = "done" /\ ~q.timedOut /\ q.lastReply \in {"s500", "throws"} =>
              /\ q.attempt = 3 /\ q.retries = 3
              /\ q.resp.status \in {500, 502}
              /\ q.lastReply = "s500" => q.resp.retries = 3

\* C14 witness: the 4th attempt succeeds, 4500 ms after the 3rd failed
FourthAttemptSucceeds ==
  \E r \in Slots :
    /\ wrapped(req[r]) /\ req[r].pc = "done"
    /\ req[r].attempt = 3 /\ req[r].slept = 4500
    /\ req[r].resp.status = 200 /\ req[r].resp.retries = 3

\* C17: the 60 s timeout bounds each attempt on its own: a call the timeout
\* has ended had its running attempt unanswered for 60 s, whatever earlier
\* attempts and sleeps took, and the attempt counted as a retryable failure
\* (so only a 4th attempt's timeout ends the call).
TimeoutPerAttempt ==
  \A r \in Slots :
    wrapped(req[r]) /\ req[r].timedOut =>
      /\ req[r].callMs - req[r].attemptStartMs >= BREAKER_TIMEOUT_MS
      /\ req[r].attempt = 3

\* a call of a native capability through POST /do that reached fire()
firedCall(q) == q.endpoint = "do" /\ q.firedIn # None

\* fire() answered "Breaker is open": 503 circuit_open, no backend call
shortCircuited(q) ==
  /\ q.pc = "done"
  /\ q.resp.status = 503 /\ q.resp.error = "circuit_open"
  /\ q.backendCalls = 0

\* C15 as stated: a call fired after 5 or more consecutive failed calls of
\* its capability inside the rolling window, and before the breaker has been
\* open for 30 s, is answered circuit_open (503) without a backend call.
FiveFailuresShortCircuit ==
  \A r \in Slots :
    /\ firedCall(req[r])
    /\ req[r].streakAtFire >= 5
    /\ req[r].firedIn # "half-open"
    => shortCircuited(req[r])

\* C15 as amended: the same, when the last of those failures left more than
\* 50 in a hundred of the calls counted in the window failed.
FailuresOverThresholdShortCircuit ==
  \A r \in Slots :
    /\ firedCall(req[r])
    /\ req[r].streakAtFire >= 5
    /\ req[r].overAtFire
    /\ req[r].firedIn # "half-open"
    => shortCircuited(req[r])

\* C15 witness: the call after five failures in a row is short-circuited
SixthCallShortCircuited ==
  \E r \in Slots :
    /\ firedCall(req[r]) /\ req[r].streakAtFire >= 5 /\ req[r].overAtFire
    /\ req[r].firedIn = "open"
    /\ shortCircuited(req[r])

\* a call admitted by a half-open breaker: the probe
probe(q) == firedCall(q) /\ q.firedIn = "half-open" /\ q.backendCalls > 0

\* C16: of the calls fired while a capability's breaker is half-open, one at
\* a time is with the backend; when it succeeds the breaker is closed, when
\* it fails the breaker is open again; and a call fired on a closed breaker
\* is admitted, a call fired on an open one is short-circuited.
OneProbeDecides ==
  /\ [](\A r1, r2 \in Slots :
          /\ probe(req[r1]) /\ req[r1].pc = "calling"
          /\ probe(req[r2]) /\ req[r2].pc = "calling"
          => r1 = r2)
  /\ [](\A r \in Slots :
          firedCall(req[r]) =>
            /\ req[r].firedIn = "closed" => req[r].backendCalls > 0
            /\ req[r].firedIn = "open" => shortCircuited(req[r]))
  /\ [][\A r \in Slots :
          probe(req[r]) /\ req[r].pc = "calling" /\ req'[r].pc = "done" =>
            getCircuitState(settle(breakers'[req[r].cap], now')) =
              IF req'[r].lastReply = "ok" THEN "closed" ELSE "open"]_vars

\* C16 witness: while the probe is with the backend, another call fired on
\* the half-open breaker has been short-circuited
SecondCallDuringProbeRefused ==
  \E r1, r2 \in Slots :
    /\ probe(req[r1]) /\ req[r1].pc = "calling"
    /\ firedCall(req[r2]) /\ req[r2].firedIn = "half-open"
    /\ shortCircuited(req[r2])

\* a /do/chain request whose planner has answered with a plan
chainWithPlan(q) ==
  /\ q.endpoint = "chain"
  /\ q.pc \notin {"idle", "planning"}
  /\ q.planned.ok

\* the budget a chain request carries, $0.50 when it carries none
carriedBudget(q) == IF q.budget.kind = "absent" THEN MAX_BUDGET ELSE q.budget.micro

\* the smaller of two numbers
min(a, b) == IF a <= b THEN a ELSE b

\* the plan has no steps, too many steps, an unknown capability, or costs
\* more than min(budget, $0.50)
planRefusable(q) ==
  LET steps == q.planned.steps
  IN \/ Len(steps) = 0
     \/ Len(steps) > MAX_STEPS
     \/ \E i \in 1..Len(steps) : steps[i] \notin CapIds
     \/ /\ \A i \in 1..Len(steps) : steps[i] \in CapIds
        /\ planCost(steps) > min(carriedBudget(q), MAX_BUDGET)

\* C18: a /do/chain request whose plan has no steps or more than 5, names a
\* capability that is not in the registry, or costs more than min(budget,
\* $0.50) is answered orchestration_failed and is not billed: the gate is
\* never entered, the replay check never sees it and no backend is called.
BadPlanNotBilled ==
  \A r \in Slots :
    chainWithPlan(req[r]) /\ planRefusable(req[r]) =>
      /\ req[r].pc = "done"
      /\ req[r].resp.status = 400
      /\ req[r].resp.error = "orchestration_failed"
      /\ req[r].gateEntries = 0
      /\ req[r].facilitatorCalls = 0
      /\ req[r].presentedAt = Absent
      /\ req[r].backendCalls = 0

\* C19: a /do/chain request with dryRun set is answered with the validated
\* plan (or orchestration_failed when there is none) without entering the
\* gate, without a facilitator or backend call, and the step that answers it
\* leaves the replay set, the breakers, the counters and the ledger as they
\* were.
DryRunTouchesNothing ==
  /\ [](\A r \in Slots :
          req[r].endpoint = "chain" /\ req[r].dryRun =>
            /\ req[r].pc = "done"
            /\ \/ /\ req[r].resp.status = 200 /\ req[r].resp.error = None
                  /\ req[r].plan = req[r].planned.steps
                  /\ req[r].resp.cost = planCost(req[r].plan)
               \/ /\ req[r].resp.status = 400
                  /\ req[r].resp.error = "orchestration_failed"
            /\ req[r].gateEntries = 0
            /\ req[r].facilitatorCalls = 0
            /\ req[r].presentedAt = Absent
            /\ req[r].backendCalls = 0
            /\ req[r].logged = 0)
  /\ [][\A r \in Slots :
          req'[r].endpoint = "chain" /\ req'[r].dryRun /\ req'[r] # req[r] =>
            UNCHANGED <<paymentNonces, firstPresented, stats, breakers,
                        usageLog, activeDiscovered>>]_vars

\* C19 witness: a dry run is answered with a plan of two steps
DryRunAnswered ==
  \E r \in Slots :
    /\ req[r].endpoint = "chain" /\ req[r].dryRun
    /\ req[r].pc = "done" /\ req[r].resp.status = 200
    /\ Len(req[r].plan) = 2

\* C20: a chain whose steps run has entered the payment gate once and passed
\* it, before its first step; the amount of its 402 and the amount sent to
\* the facilitator are the sum of the costs of the planned steps.
ChainPaysOnceUpFront ==
  \A r \in Slots :
    req[r].endpoint = "chain" =>
      LET q == req[r]
      IN /\ q.gateEntries <= 1 /\ q.facilitatorCalls <= 1
         /\ q.step >= 1 => q.gateEntries = 1 /\ gatePassed(q)
         /\ q.resp.error = "payment_required" =>
              q.resp.amount = planCost(q.plan)
         /\ q.facilitatorCalls > 0 => q.verifyAmount = planCost(q.plan)

\* C20 witness: a chain of two steps, verified for the sum of both costs, is
\* at its second step
SecondStepAfterOnePayment ==
  \E r \in Slots :
    /\ req[r].endpoint = "chain"
    /\ req[r].step = 2 /\ Len(req[r].plan) = 2
    /\ req[r].gateEntries = 1
    /\ req[r].verifyReply = "ok_valid"
    /\ req[r].verifyAmount = Cap(req[r].plan[1]).cost + Cap(req[r].plan[2]).cost

\* a chain whose plan is being executed or has been
executing(q) == q.endpoint = "chain" /\ q.step >= 1

\* the calls of the chain's steps that returned a result
returned(q) == {j \in 1..Len(q.stepOutcomes) : q.stepOutcomes[j] = "ok"}

\* C21: the steps of a chain are called in plan order, each only after all
\* the steps before it returned a result; after the first step that fails no
\* step is called, and the failure envelope names that step (counted from
\* 0) and holds the results and costs of exactly the steps before it.
StepsInPlanOrder ==
  \A r \in Slots :
    executing(req[r]) =>
      LET q == req[r]
      IN /\ \A j \in 1..(Len(q.stepOutcomes) - 1) : q.stepOutcomes[j] = "ok"
         /\ q.pc \in {"calling", "sleeping"} =>
              /\ Len(q.stepOutcomes) = q.step - 1
              /\ q.cap = q.plan[q.step]
         /\ q.pc = "done" /\ q.resp.error \in {"step_failed", "step_error"} =>
              /\ q.resp.failedStep = q.step - 1
              /\ q.resp.failedStep = Cardinality(returned(q))
              /\ Len(q.resp.stepResults) = q.resp.failedStep
              /\ Len(q.resp.costBreakdown) = q.resp.failedStep
              /\ \A j \in 1..q.resp.failedStep :
                   /\ q.resp.stepResults[j].result = q.plan[j]
                   /\ q.resp.costBreakdown[j].capabilityId = q.plan[j]

\* C21 witness: the second step of a chain failed; the envelope names step 1
\* and holds the first step's result
SecondStepFailed ==
  \E r \in Slots :
    /\ executing(req[r]) /\ req[r].pc = "done"
    /\ req[r].resp.error = "step_failed"
    /\ req[r].stepOutcomes = <<"ok", "s404">>
    /\ req[r].resp.failedStep = 1
    /\ Len(req[r].resp.stepResults) = 1

\* a chain answered with success: true after executing its plan
chainSucceeded(q) ==
  /\ executing(q) /\ q.pc = "done"
  /\ q.resp.status = 200 /\ q.resp.error = None

\* C22: in a successful chain response totalCost is the sum of the costs
\* the cost breakdown lists, the breakdown has one entry for each planned
\* step, in plan order, with the step's capability and its price, and
\* totalCost is the plan's estimatedCost, the amount the gate quoted.
TotalCostIsSumOfSteps ==
  \A r \in Slots :
    chainSucceeded(req[r]) =>
      LET q == req[r]
          b == q.resp.costBreakdown
      IN /\ Len(b) = Len(q.planned.steps)
         /\ \A j \in 1..Len(b) :
              /\ b[j].step = j - 1
              /\ b[j].capabilityId = q.planned.steps[j]
              /\ b[j].cost = Cap(q.planned.steps[j]).cost
         /\ q.resp.cost = sumCosts(b)
         /\ q.resp.cost = q.estimatedCost
         /\ q.facilitatorCalls > 0 => q.verifyAmount = q.resp.cost

\* C22 witness: a paid chain of two steps succeeded, for $0.015
TwoStepsSucceeded ==
  \E r \in Slots :
    /\ chainSucceeded(req[r])
    /\ req[r].verifyReply = "ok_valid"
    /\ Len(req[r].resp.costBreakdown) = 2
    /\ req[r].resp.cost = 15000

\* C23: a chain step's call is cut off 30 s after it began: no step is seen
\* pending, returning or failing later than that.
StepCutOffAfter30s ==
  \A r \in Slots :
    executing(req[r]) =>
      /\ req[r].callMs <= STEP_TIMEOUT_MS
      /\ \A j \in 1..Len(req[r].stepResults) :
           req[r].stepResults[j].durationMs <= STEP_TIMEOUT_MS

\* C24: a chain that has been executing for more than 120 s ends with
\* total_timeout and the results of its completed steps, and starts no
\* further step.
ChainBoundedBy120s ==
  \A r \in Slots :
    executing(req[r]) =>
      LET q == req[r]
      IN /\ q.pc \in {"calling", "sleeping"} => q.chainMs <= TOTAL_TIMEOUT_MS
         /\ q.pc = "done" /\ q.chainMs > TOTAL_TIMEOUT_MS =>
              /\ q.resp.error = "total_timeout"
              /\ q.resp.stepResults = q.stepResults
              /\ q.resp.completedSteps = Len(q.stepResults)

\* the provider price parseCost read from the listing
parsedPrice == parseCost(service.cost)

\* C25: for a listing the filter keeps (provider price p at most $0.25) the
\* gateway price g is at least max(2p, p + $0.005), is a multiple of $0.001
\* and is the smallest such multiple, and the fee reported is g less the
\* provider price reported.
GatewayPriceIsSmallestMultiple ==
  normalized.stage = "kept" =>
    LET p == parsedPrice
        g == normalized.pylonCost
        floor == mathMax(2 * p, p + 5000)
    IN /\ p <= MAX_PROVIDER_COST
       /\ g >= floor
       /\ g % 1000 = 0
       /\ g - 1000 < floor
       /\ normalized.pylonFee = g - normalized.providerCost

\* the hosts among those followed that are loopback, in a private,
\* link-local or shared IPv4 block, in fc00::/7 or fe80::/10, or the
\* metadata host
InternalHosts ==
  {"127.0.0.1", "localhost", "::1", "10.1.2.3", "172.16.0.1", "172.31.255.1",
   "192.168.1.1", "169.254.169.254", "100.64.0.1", "100.127.0.1",
   "fc00::1", "fd12:3456::1", "fe80::1", "febf::1",
   "metadata.google.internal"}

\* C26: callDiscoveredBackend sends no request to an endpoint whose URL does
\* not parse or whose host is internal: the call ends in blocked_endpoint.
InternalEndpointNeverCalled ==
  outbound # None =>
    LET u == normalized.providerUrl
    IN ~u.valid \/ u.host \in InternalHosts => outbound = "blocked_endpoint"

\* C27: a request sent to the endpoint of a discovered capability never
\* carries the backend-bypass credential, however the capability was
\* matched; the requests sent to the registry's backends carry it.
BypassKeyStaysHome ==
  \A r \in Slots :
    req[r].backendCalls > 0 =>
      /\ req[r].cap \notin CapIds => req[r].sentKey = None
      /\ req[r].cap \in CapIds => req[r].sentKey = BACKEND_BYPASS_KEY
      /\ req[r].matchSource = "discovered" <=> req[r].cap \notin CapIds

\* C27 witness: a service activated by an earlier request is matched by its
\* ID and called without the credential
ActivatedServiceCalledBare ==
  \E r \in Slots :
    /\ req[r].cap = DiscoveredCap.id
    /\ req[r].matchedBy = "id"
    /\ req[r].pc = "calling"
    /\ req[r].sentKey = None

EveryDoAnswered ==
  \A n \in 1..MaxRequests :
    (received = n /\ req[1].endpoint = "do" /\ req[1].pc # "idle")
      ~> (received = n /\ req[1].pc = "done")

\* a /do request that passed the gate and went through the validation of
\* its parameters
validated(q) ==
  /\ q.endpoint = "do"
  /\ gatePassed(q)
  /\ q.pc \notin {"idle", "gate", "verifying", "paid", "hung"}

\* the required fields of the request's capability that have no value at all
\* once the defaults are in
absentAfterDefaults(q) ==
  {k \in Cap(q.cap).required : applyDefaults(q.cap, q.extracted)[k] = "absent"}

\* C30: a /do request is answered missing_params exactly when some required
\* field is absent after the defaults are applied, a field with any value (0,
\* false and "" included) counting as present, and the answer lists exactly
\* the absent fields.
RequiredMeansPresent ==
  \A r \in Slots :
    LET q == req[r]
        refused == q.pc = "done" /\ q.resp.error = "missing_params"
    IN validated(q) =>
         /\ refused <=> absentAfterDefaults(q) # {}
         /\ refused => q.resp.missing = absentAfterDefaults(q)

\* a /do request whose backend call ended, on an answer, in a failure the
\* wrapper retries: a status of 500 or more, or a transport error
failedRetryably(q) ==
  /\ q.endpoint = "do"
  /\ q.pc = "done"
  /\ q.backendCalls > 0
  /\ ~q.timedOut
  /\ q.lastReply \in {"s500", "throws"}

\* C31: every backend call of /do goes through the wrapper, the calls of
\* discovered capabilities included: a call that ended in a status of 500 or
\* more (or a transport error) was retried through the whole schedule first.
EveryCallWrapped ==
  \A r \in Slots :
    failedRetryably(req[r]) =>
      /\ req[r].attempt = Len(RETRY_DELAYS)
      /\ req[r].backendCalls = Len(RETRY_DELAYS) + 1

\* C32: the active-discovered map only grows: every key begins with
\* "discovered:", an active ID stays active, and the record stored under it
\* (endpoint, cost, provider) is the one its first activation stored.
ActiveMapInsertOnly ==
  [][\A id \in DOMAIN activeDiscovered :
       /\ id \in DOMAIN activeDiscovered'
       /\ activeDiscovered'[id] = activeDiscovered[id]
       /\ SubSeq(id, 1, 11) = "discovered:"]_vars

\* a /do request that went through discoverForTask and has its results
searched(q) == q.lookup.searched /\ q.pc \notin {"discovering", "fallback"}

\* C33 as stated: once a search was answered 2xx, every search for the same
\* string ignoring case less than 5 minutes later is answered from the cache
\* without a request to the bazaar; failed searches are not cached; a task
\* without search terms sends no request to the bazaar.
CachedAfterAny2xx ==
  \A r \in Slots :
    LET q == req[r]
    IN q.lookup.searched =>
         /\ q.lookup.saw2xx => q.lookup.fromCache /\ q.lookup.bazaarCalls = 0
         /\ q.lookup.terms = None => q.lookup.bazaarCalls = 0

\* C33 amended: once a search was answered 2xx with a body that could be
\* read, every search for the same string ignoring case less than 5 minutes
\* later gets that answer's results from the cache without a request to the
\* bazaar; any other search with terms asks the bazaar (failed searches and
\* unreadable answers are not cached); a task without search terms sends no
\* request to the bazaar and finds nothing.
CachedAfterReadable2xx ==
  \A r \in Slots :
    LET q == req[r]
        lk == q.lookup
    IN lk.searched =>
         /\ lk.terms # None =>
              /\ lk.sawRead <=> lk.fromCache
              /\ lk.fromCache =>
                   lk.bazaarCalls = 0 /\ lk.results = lk.expected
              /\ ~lk.fromCache => lk.bazaarCalls \in {1, 2}
         /\ lk.terms = None =>
              /\ lk.bazaarCalls = 0 /\ ~lk.fromCache
              /\ q.pc = "done" /\ q.resp.error = "no_matching_capability"

\* C33 witness: a search in another spelling, one tick after the bazaar's
\* answer, is answered from the cache with the service found then
OtherSpellingServedFromCache ==
  \E r \in Slots :
    /\ req[r].lookup.terms = "Predict Rain"
    /\ req[r].lookup.fromCache
    /\ req[r].lookup.results = "found"
    /\ req[r].lookup.at = bazaarLog["predict rain"].readAt + 1

\* the value at the end of the path in the results of the earlier steps:
\* undefined when the path has not the form steps[N].rest, when step N has
\* no result yet, or when a key on the way is missing
mapped(b) ==
  LET p == b.path
  IN IF ~p.given \/ ~p.matches \/ p.idx >= Len(b.stepResults) THEN Undefined
     ELSE descend(b.stepResults[p.idx + 1], p.rest)

\* C34: a step's parameter is the mapped value when the mapping path
\* resolves, else the literal value when one is given, else the schema's
\* default; a path that does not resolve leaves the literal in place; and a
\* path to the step itself or a later one resolves to undefined.
MappingOverLiteralOverDefault ==
  build.done =>
    LET b == build.step
        current == Len(b.stepResults)
    IN /\ build.param = IF mapped(b) # Undefined THEN mapped(b)
                        ELSE IF b.literal # Undefined THEN b.literal
                        ELSE b.default
       /\ mapped(b) = Undefined /\ b.literal # Undefined =>
            build.param = b.literal
       /\ b.path.given /\ b.path.matches /\ b.path.idx >= current =>
            resolvePath(b.path, b.stepResults) = Undefined

\* C34 witness: a path to a key the first step's result lacks leaves the
\* literal value of the second step's parameter in place
UnresolvedPathKeepsLiteral ==
  /\ build.done
  /\ Len(build.step.stepResults) = 1
  /\ build.step.path.given /\ build.step.path.idx = 0
  /\ build.step.path.rest = <<"result", "title">>
  /\ build.step.literal = Str("typed")
  /\ build.param = Str("typed")

\* C35: a /do call of a discovered capability whose endpoint is blocked is
\* answered 400 blocked_endpoint.
BlockedEndpointIs400 ==
  \A r \in Slots :
    LET q == req[r]
    IN validated(q) /\ q.matchSource = "discovered"
         /\ isBlockedEndpoint(q.target) =>
           /\ q.pc = "done"
           /\ q.resp.error = "blocked_endpoint"
           /\ q.resp.status = 400

\* C36: a chain that passed the gate and ran has, when it is answered, one
\* usage record in the ledger for each step it ran.
ChainSpendInLedger ==
  \A r \in Slots :
    LET q == req[r]
    IN q.endpoint = "chain" /\ q.pc = "done" /\ gatePassed(q)
         /\ Len(q.stepOutcomes) >= 1 =>
           q.logged = Len(q.stepOutcomes)

\* the answers of /do that refuse a request before any payment is looked at
RefusedEarly ==
  {"missing_task", "unknown_capability", "no_matching_capability",
   "over_budget", "payment_required"}

\* a /do request on its way to, or at, one of those answers
refusedEarly(q) ==
  /\ q.endpoint = "do"
  /\ \/ q.pc \in {"discovering", "fallback", "gate"}
     \/ q.pc = "done" /\ q.resp.error \in RefusedEarly

\* C37: a /do request answered missing_task, unknown_capability,
\* no_matching_capability, over_budget or, for want of a proof, with the
\* payment requirements has called neither the facilitator nor a backend,
\* presented nothing to the replay set and logged nothing, and none of its
\* steps changed the replay set or the ledger.
EarlyRefusalTouchesNothing ==
  /\ [](\A r \in Slots :
          req[r].endpoint = "do" /\ req[r].pc = "done"
            /\ req[r].resp.error \in RefusedEarly =>
              /\ req[r].facilitatorCalls = 0
              /\ req[r].backendCalls = 0
              /\ req[r].presentedAt = Absent
              /\ req[r].logged = 0)
  /\ [][\A r \in Slots :
          req'[r] # req[r] /\ refusedEarly(req'[r]) =>
            UNCHANGED <<paymentNonces, usageLog>>]_vars

\* C37 witness: a request that matched a capability within its budget and
\* entered the gate without proof is answered with the payment requirements
RefusedWithoutProof ==
  \E r \in Slots :
    /\ req[r].endpoint = "do" /\ req[r].pc = "done"
    /\ req[r].resp.status = 402 /\ req[r].resp.error = "payment_required"
    /\ req[r].gateEntries = 1

\* the wrapped calls of capability c that are over with this step: the
\* attempt loop returned or threw, or the breaker's timeout rejected the call
callsOver(c) ==
  {r \in Slots :
     /\ req[r].matchSource # "discovered" /\ req[r].cap = c
     /\ req[r].pc \in {"calling", "sleeping"}
     /\ req'[r].pc \notin {"calling", "sleeping"} \/ req'[r].step # req[r].step}

\* C38: for every capability totalCalls = successes + failures at all times.
\* A wrapped call that reached the backend and is over adds one to totalCalls
\* and to one of successes and failures, whatever the number of its attempts
\* (a call the breaker's timeout rejected does so when its loop ends behind
\* it); no other step changes a counter, so that a call the open breaker
\* short-circuited changes none.
EachCallCountedOnce ==
  /\ [](\A c \in CapIds :
          stats[c].totalCalls = stats[c].successes + stats[c].failures)
  /\ [](\A r \in Slots :
          req[r].pc = "done" /\ req[r].resp.error = "circuit_open" =>
            req[r].backendCalls = 0)
  /\ [][\A c \in CapIds :
          LET over == callsOver(c)
              rejected == {r \in over : req'[r].timedOut}
              looped == IF behind'[c] < behind[c] THEN 1 ELSE 0
          IN /\ stats'[c].totalCalls - stats[c].totalCalls
                  = Cardinality(over \ rejected) + looped
             /\ stats'[c].successes + stats'[c].failures
                  - (stats[c].successes + stats[c].failures)
                  = Cardinality(over \ rejected) + looped
             /\ stats'[c].successes >= stats[c].successes
             /\ stats'[c].failures >= stats[c].failures
             /\ behind'[c] = behind[c] + Cardinality(rejected) - looped
             /\ \A r \in Slots :
                  (/\ req'[r].pc = "done" /\ req[r].pc # "done"
                   /\ req'[r].resp.error = "circuit_open"
                   /\ req'[r].cap = c) =>
                       stats'[c] = stats[c] /\ behind'[c] = behind[c]]_vars

\* C38 witness: the first call made four attempts, all answered 500, and the
\* capability's counters stand at one call, one failure
FourAttemptsOneCount ==
  /\ received = 1
  /\ req[1].pc = "done" /\ req[1].backendCalls = 4 /\ ~req[1].timedOut
  /\ stats["ip-geo"] = [successes |-> 0, failures |-> 1, totalCalls |-> 1]

\* the wrapped /do calls that end with this step on a backend answer from
\* 400 to 499
refusedNow ==
  {r \in Slots :
     /\ req[r].endpoint = "do" /\ req[r].matchSource # "discovered"
     /\ req[r].pc = "calling" /\ req'[r].pc = "done"
     /\ req'[r].lastReply = "s404" /\ ~req'[r].timedOut}

\* the failed calls since the last success, when all of them are inside the
\* rolling window at time t
streakInWindow(b, t) ==
  IF (t - b.streakAt) * TickMs < ROLLING_COUNT_TIMEOUT THEN b.streak ELSE 0

\* the other capabilities' breakers and counters stay as they are
othersUntouched(c) ==
  \A d \in CapIds \ {c} : breakers'[d] = breakers[d] /\ stats'[d] = stats[d]

\* C39 as stated: a call answered 4xx by the backend is a failure for its
\* capability's breaker, the fifth such call in a row (inside the rolling
\* window) leaves that breaker open, and the other capabilities' breakers and
\* counters are unchanged.
FiveRefusalsOpen ==
  [][\A r \in refusedNow :
       LET c == req[r].cap
       IN /\ windowFailures(breakers'[c])
               = windowFailures(settle(breakers[c], now)) + 1
          /\ breakers'[c].streak = breakers[c].streak + 1
          /\ streakInWindow(breakers'[c], now) >= 5 =>
                breakers'[c].state = "open"
          /\ othersUntouched(c)]_vars

\* C39 as amended: the same, the breaker being left open when the last of
\* the five calls left more than 50 in a hundred of the calls counted in the
\* window failed.
RefusalsOverThresholdOpen ==
  [][\A r \in refusedNow :
       LET c == req[r].cap
       IN /\ windowFailures(breakers'[c])
               = windowFailures(settle(breakers[c], now)) + 1
          /\ breakers'[c].streak = breakers[c].streak + 1
          /\ (streakInWindow(breakers'[c], now) >= 5 /\ breakers'[c].over) =>
                breakers'[c].state = "open"
          /\ othersUntouched(c)]_vars

\* C39 witness: the first five calls of ip-geo were answered 404 and its
\* breaker is open, with screenshot's breaker and counters as at the start
FifthRefusalOpened ==
  /\ received = 5
  /\ req[1].pc = "done" /\ req[1].lastReply = "s404"
  /\ stats["ip-geo"] = [successes |-> 0, failures |-> 5, totalCalls |-> 5]
  /\ breakers["ip-geo"].state = "open" /\ breakers["ip-geo"].streak = 5
  /\ breakers["screenshot"] = NoBreaker /\ stats["screenshot"] = NoStats

\* a /do request that discovery matched and that was refused for its budget
\* or at the gate
refusedAfterDiscovery(q) ==
  /\ q.endpoint = "do" /\ q.matchedBy = "discovery" /\ q.pc = "done"
  /\ q.resp.error = "over_budget" \/ q.resp.status = 402

\* C40: the service that discovery matched is in the active-discovered map
\* from the matching on, also when the request is then refused with
\* over_budget or 402; and a request that names an active ID is not answered
\* unknown_capability.
ActivatedBeforeBudgetAndGate ==
  /\ [](\A r \in Slots :
          /\ req[r].matchedBy = "discovery" =>
               req[r].cap \in DOMAIN activeDiscovered
          /\ refusedAfterDiscovery(req[r]) =>
               req[r].cap \in DOMAIN activeDiscovered)
  /\ [][\A r \in Slots :
          (/\ req'[r] # req[r] /\ req'[r].pc = "done"
           /\ req'[r].resp.error = "unknown_capability") =>
              DiscoveredCap.id \notin DOMAIN activeDiscovered]_vars

\* C40 witness: one request was matched by discovery and refused
\* over_budget, and another names the ID and is matched to the activated
\* service
RefusedYetResolvable ==
  \E r1, r2 \in Slots :
    /\ refusedAfterDiscovery(req[r1])
    /\ req[r1].resp.error = "over_budget"
    /\ req[r2].matchedBy = "id" /\ req[r2].matchSource = "discovered"
    /\ req[r2].cap = req[r1].cap
    /\ req[r2].pc \in {"gate", "paid", "calling", "done"}

====
